---- MODULE Spec2Model ----
(***************************************************************************)
(* The PDF assembly engine of gxpdf: the PdfWriter (internal/writer), its  *)
(* page tree builder and the per-page resource registry.                   *)
(*                                                                         *)
(* The output is modelled as a sequence of tokens, one per write call of   *)
(* the code, each carrying the number of bytes the code writes for it, so  *)
(* that a byte offset is the sum of the lengths of the tokens before it.   *)
(***************************************************************************)
EXTENDS Integers, Sequences, FiniteSets, TLC

VARIABLES
    w,      \* the PdfWriter: its fields, its bufio buffer and its sink
    io,     \* environment: writes the sink still accepts (-1: no limit)
    ret,    \* the last call on the writer: operation, arguments and result
    pre,    \* the writer as it was when the last call was entered
    prev,   \* summary of the single pass of the writer constructed before
    calls,  \* number of write calls made so far
    made,   \* number of writers constructed so far
    dict,     \* a resource registry in the hands of its callers
    csw,    \* the content stream written next to that registry
    rcall,  \* the last call on the registry: operation, arguments and result
    rhist,  \* the names the registry has returned so far, and the number of calls
    graphicsOps,  \* the graphics operations of a page of the creator
    dcall   \* the last Draw call on that page

writerVars == <<w, io, ret, pre, prev, calls, made>>
registryVars == <<dict, csw, rcall, rhist>>
pageVars == <<graphicsOps, dcall>>
vars == <<w, io, ret, pre, prev, calls, made, dict, csw, rcall, rhist, graphicsOps, dcall>>

----------------------------------------------------------------------------
(* Bounds of the model *)

MaxPages == 2
MaxCalls == 2
MaxWriters == 2
MaxIO == 1
MaxSeekFail == 1
MaxRegOps == 3
MaxDraws == 3

----------------------------------------------------------------------------
(* Helpers *)

Max(a, b) == IF a > b THEN a ELSE b

\* number of decimal digits of fmt.Sprintf("%d", n), n >= 0
Digits(n) ==
    IF n < 10 THEN 1
    ELSE IF n < 100 THEN 2
    ELSE IF n < 1000 THEN 3
    ELSE IF n < 10000 THEN 4
    ELSE IF n < 100000 THEN 5
    ELSE 6

RECURSIVE SumLen(_)
SumLen(s) == IF s = <<>> THEN 0 ELSE Head(s).len + SumLen(Tail(s))

Range(s) == {s[i] : i \in 1..Len(s)}

\* the permutations of a finite set, as sequences
Perms(S) ==
    {p \in [1..Cardinality(S) -> S] : \A i, j \in 1..Cardinality(S) : p[i] = p[j] => i = j}

\* a Go map: a function on a finite set of keys
EmptyMap == [k \in {} |-> 0]
Has(m, k) == k \in DOMAIN m
Put(m, k, v) == [x \in (DOMAIN m) \cup {k} |-> IF x = k THEN v ELSE m[x]]

----------------------------------------------------------------------------
(* The document model (external collaborator)                              *)

Fonts == {"Helvetica", "Times-Roman"}

\* a font definition whose WriteFontObject returns an error
BrokenFont == "Broken"

\* the embedded (TrueType, subsetted) fonts, by font ID: font_1 is written
\* in full, the writer of font_2 fails
EmbeddedFonts == {"font_1", "font_2"}
IsEmbedded(f) == f \in EmbeddedFonts

\* the text operations of one page: the font each operation uses
PageOps == {<<>>, <<"Helvetica">>, <<"Times-Roman", "Helvetica">>}

NoMeta == [title |-> "", author |-> "", subject |-> ""]

Metas == {
    NoMeta,
    [title |-> "T", author |-> "", subject |-> ""],
    [title |-> "", author |-> "A", subject |-> ""],
    [title |-> "", author |-> "", subject |-> "S"] }

\* a document of n pages; the odd pages carry ops, the even pages nothing
MkDoc(n, ops, m) ==
    [pages |-> [i \in 1..n |-> [text |-> IF i % 2 = 1 THEN ops ELSE <<>>, gfx |-> <<>>,
                                annots |-> 0]],
     title |-> m.title, author |-> m.author, subject |-> m.subject]

\* the documents the operations are called with: every page count with every
\* page content, every kind of metadata, and a document without pages
Docs ==
    {MkDoc(n, ops, NoMeta) : n \in 1..MaxPages, ops \in PageOps}
    \cup {MkDoc(1, <<>>, m) : m \in Metas}
    \cup {MkDoc(MaxPages, <<"Times-Roman", "Helvetica">>, [title |-> "T", author |-> "", subject |-> ""])}
    \cup {MkDoc(0, <<>>, NoMeta)}

PageCount(doc) == Len(doc.pages)

\* doc.Validate(): fails on a document without pages
Validate(doc) == PageCount(doc) > 0

\* a document without page content, as Write sees it
NoContent(doc) ==
    [doc EXCEPT !.pages = [i \in 1..Len(doc.pages) |->
                              [text |-> <<>>, gfx |-> <<>>, annots |-> 0]]]

----------------------------------------------------------------------------
(* Resource registry (ResourceDictionary). A resource name F<k>, Im<k> or  *)
(* GS<k> is represented by its number k within its namespace; its text is  *)
(* the prefix followed by the decimal digits of k.                         *)

NewResourceDictionary ==
    [fonts |-> EmptyMap, fontIDs |-> EmptyMap, xobjects |-> EmptyMap,
     extgstates |-> EmptyMap, extgstateCache |-> EmptyMap, extgstateObjMap |-> EmptyMap]

\* len(m) of a Go map
MapLen(m) == Cardinality(DOMAIN m)

\* AddFont: the name is F<len(fonts)+1>
AddFontName(rd) == MapLen(rd.fonts) + 1
AddFont(rd, objNum) == [rd EXCEPT !.fonts = Put(@, AddFontName(rd), objNum)]

\* AddFontWithID: the name returned, and the registry after the call
AddFontWithIDName(rd, fontID) ==
    IF Has(rd.fontIDs, fontID) THEN rd.fontIDs[fontID] ELSE MapLen(rd.fonts) + 1

\* mutant of AddFontWithID: the font ID is not looked up
AddFontWithID_NoLookup(rd, objNum, fontID) ==
    [rd EXCEPT !.fonts = Put(rd.fonts, MapLen(rd.fonts) + 1, objNum),
               !.fontIDs = Put(rd.fontIDs, fontID, MapLen(rd.fonts) + 1)]

\* mutant of AddFontWithID: a registered font ID takes the number passed
AddFontWithID_Overwrite(rd, objNum, fontID) ==
    IF Has(rd.fontIDs, fontID) THEN [rd EXCEPT !.fonts = Put(@, rd.fontIDs[fontID], objNum)]
    ELSE [rd EXCEPT !.fonts = Put(rd.fonts, MapLen(rd.fonts) + 1, objNum),
                    !.fontIDs = Put(rd.fontIDs, fontID, MapLen(rd.fonts) + 1)]

AddFontWithID(rd, objNum, fontID) ==
    IF Has(rd.fontIDs, fontID) THEN rd
    ELSE LET name == Cardinality(DOMAIN rd.fonts) + 1
         IN  [rd EXCEPT !.fonts = Put(rd.fonts, name, objNum),
                        !.fontIDs = Put(rd.fontIDs, fontID, name)]

\* SetFontObjNumByID: the boolean returned, and the registry after the call
SetFontObjNumByIDOk(rd, fontID) == Has(rd.fontIDs, fontID)

SetFontObjNumByID(rd, fontID, objNum) ==
    IF ~Has(rd.fontIDs, fontID) THEN rd
    ELSE [rd EXCEPT !.fonts = Put(rd.fonts, rd.fontIDs[fontID], objNum)]

\* mutant of AddImage: the name is counted from the font map
AddImage_FontCounter(rd, objNum) == [rd EXCEPT !.xobjects = Put(@, MapLen(rd.fonts) + 1, objNum)]

\* AddImage: the name is Im<len(xobjects)+1>
AddImageName(rd) == MapLen(rd.xobjects) + 1
AddImage(rd, objNum) == [rd EXCEPT !.xobjects = Put(@, AddImageName(rd), objNum)]

\* SetImageObjNum: the number of an image resource registered under name
SetImageObjNum(rd, name, objNum) ==
    IF ~Has(rd.xobjects, name) THEN rd ELSE [rd EXCEPT !.xobjects = Put(@, name, objNum)]

\* AddExtGState: the name is GS<len(extgstates)+1>
AddExtGStateName(rd) == MapLen(rd.extgstates) + 1
AddExtGState(rd, objNum) == [rd EXCEPT !.extgstates = Put(@, AddExtGStateName(rd), objNum)]

\* GetOrCreateExtGState: the name and the flag returned, and the registry
\* after the call
GetOrCreateExtGStateName(rd, opacity) ==
    IF Has(rd.extgstateCache, opacity) THEN rd.extgstateCache[opacity]
    ELSE MapLen(rd.extgstates) + 1

GetOrCreateExtGStateIsNew(rd, opacity) == ~Has(rd.extgstateCache, opacity)

\* mutant of GetOrCreateExtGState: the cache is not consulted
GetOrCreateExtGState_NoCache(rd, opacity) ==
    [rd EXCEPT !.extgstateCache = Put(@, opacity, MapLen(rd.extgstates) + 1),
               !.extgstates = Put(@, MapLen(rd.extgstates) + 1, 0),
               !.extgstateObjMap = Put(@, MapLen(rd.extgstates) + 1, 0)]

GetOrCreateExtGState(rd, opacity) ==
    IF Has(rd.extgstateCache, opacity) THEN rd
    ELSE [rd EXCEPT !.extgstateCache = Put(@, opacity, MapLen(rd.extgstates) + 1),
                    !.extgstates = Put(@, MapLen(rd.extgstates) + 1, 0),
                    !.extgstateObjMap = Put(@, MapLen(rd.extgstates) + 1, 0)]

\* SetExtGStateObjNum: the boolean returned, and the registry after the call
SetExtGStateObjNumOk(rd, name) == Has(rd.extgstates, name)

\* mutant of SetExtGStateObjNum: an unknown name is registered
SetExtGStateObjNum_NoTest(rd, name, objNum) ==
    [rd EXCEPT !.extgstates = Put(@, name, objNum), !.extgstateObjMap = Put(@, name, objNum)]

\* mutant of SetExtGStateObjNum: only the late-binding map is assigned
SetExtGStateObjNum_MapOnly(rd, name, objNum) ==
    IF ~Has(rd.extgstates, name) THEN rd
    ELSE [rd EXCEPT !.extgstateObjMap = Put(@, name, objNum)]

SetExtGStateObjNum(rd, name, objNum) ==
    IF ~Has(rd.extgstates, name) THEN rd
    ELSE [rd EXCEPT !.extgstates = Put(@, name, objNum),
                    !.extgstateObjMap = Put(@, name, objNum)]

HasResources(rd) ==
    DOMAIN rd.fonts # {} \/ DOMAIN rd.xobjects # {} \/ DOMAIN rd.extgstates # {}

\* fmt.Sprintf("%d", k), k >= 0: the decimal digits, most significant first
RECURSIVE Sprintd(_)
Sprintd(k) == IF k < 10 THEN <<k>> ELSE Append(Sprintd(k \div 10), k % 10)

\* a < b for two strings of digits, compared byte by byte as Go compares
\* strings (the names of one namespace share their prefix)
StringLess(a, b) ==
    \E i \in 1..(Len(a) + 1) :
        /\ i <= Len(b)
        /\ \A j \in 1..(i - 1) : a[j] = b[j]
        /\ (i > Len(a) \/ a[i] < b[i])

\* sort.Strings on the names of one namespace
RECURSIVE InsertName(_, _)
InsertName(sorted, k) ==
    IF sorted = <<>> THEN <<k>>
    ELSE IF StringLess(Sprintd(k), Sprintd(Head(sorted))) THEN <<k>> \o sorted
    ELSE <<Head(sorted)>> \o InsertName(Tail(sorted), k)

\* mutant of SortStrings: the names stay in the order of the range
SortStrings_Unsorted(names) == names

RECURSIVE SortStrings(_)
SortStrings(names) ==
    IF names = <<>> THEN <<>>
    ELSE InsertName(SortStrings(SubSeq(names, 1, Len(names) - 1)), names[Len(names)])

\* a piece of the serialized dictionary: a literal, or the entry
\* " /<prefix><k> <num> 0 R" of a resource
Lit(s, len) == [s |-> s, k |-> 0, num |-> 0, len |-> len]
ResEntry(prefix, plen, k, num) ==
    [s |-> prefix, k |-> k, num |-> num, len |-> 2 + plen + Digits(k) + 1 + Digits(num) + 4]

\* the entries of the names in the order given
Entries(prefix, plen, resources, names) ==
    [i \in 1..Len(names) |-> ResEntry(prefix, plen, names[i], resources[names[i]])]

\* writeSortedResources: names is the order in which the range over the
\* map visited the names
writeSortedResources(prefix, plen, resources, names) ==
    Entries(prefix, plen, resources, SortStrings(names))

\* the orders in which a range over a map can visit its keys: every order
\* of a small map, the rotations of the ascending order and their reverses
\* of a larger one
Reverse(s) == [i \in 1..Len(s) |-> s[Len(s) + 1 - i]]
Rotate(n, r) == [i \in 1..n |-> ((i + r - 1) % n) + 1]
RangeOrders(m) ==
    IF MapLen(m) <= 3 THEN Perms(DOMAIN m)
    ELSE {Rotate(MapLen(m), r) : r \in 0..(MapLen(m) - 1)}
         \cup {Reverse(Rotate(MapLen(m), r)) : r \in 0..(MapLen(m) - 1)}

\* the three ranges of one call of Bytes
IterOrders(rd) ==
    {[fonts |-> f, xobjects |-> x, extgstates |-> g] :
        f \in RangeOrders(rd.fonts), x \in RangeOrders(rd.xobjects),
        g \in RangeOrders(rd.extgstates)}

\* mutant of Bytes: /ProcSet is written for an empty registry too
Bytes_AlwaysProcSet(rd, it) ==
    <<Lit("<<", 2)>>
    \o (IF MapLen(rd.fonts) > 0
        THEN <<Lit(" /Font <<", 9)>> \o writeSortedResources("F", 1, rd.fonts, it.fonts)
             \o <<Lit(" >>", 3)>>
        ELSE <<>>)
    \o (IF MapLen(rd.xobjects) > 0
        THEN <<Lit(" /XObject <<", 12)>>
             \o writeSortedResources("Im", 2, rd.xobjects, it.xobjects) \o <<Lit(" >>", 3)>>
        ELSE <<>>)
    \o (IF MapLen(rd.extgstates) > 0
        THEN <<Lit(" /ExtGState <<", 14)>>
             \o writeSortedResources("GS", 2, rd.extgstates, it.extgstates) \o <<Lit(" >>", 3)>>
        ELSE <<>>)
    \o <<Lit(" /ProcSet [/PDF /Text /ImageB /ImageC /ImageI]", 46)>>
    \o <<Lit(" >>", 3)>>

\* Bytes: the serialized dictionary, it giving the order of each range
Bytes(rd, it) ==
    <<Lit("<<", 2)>>
    \o (IF MapLen(rd.fonts) > 0
        THEN <<Lit(" /Font <<", 9)>> \o writeSortedResources("F", 1, rd.fonts, it.fonts)
             \o <<Lit(" >>", 3)>>
        ELSE <<>>)
    \o (IF MapLen(rd.xobjects) > 0
        THEN <<Lit(" /XObject <<", 12)>>
             \o writeSortedResources("Im", 2, rd.xobjects, it.xobjects) \o <<Lit(" >>", 3)>>
        ELSE <<>>)
    \o (IF MapLen(rd.extgstates) > 0
        THEN <<Lit(" /ExtGState <<", 14)>>
             \o writeSortedResources("GS", 2, rd.extgstates, it.extgstates) \o <<Lit(" >>", 3)>>
        ELSE <<>>)
    \o (IF HasResources(rd)
        THEN <<Lit(" /ProcSet [/PDF /Text /ImageB /ImageC /ImageI]", 46)>>
        ELSE <<>>)
    \o <<Lit(" >>", 3)>>

\* the bytes of the /Resources entry of a page and their number; the order
\* of the ranges is one the map can take
ResBytes(rd) ==
    [bytes |-> Bytes(rd, CHOOSE it \in IterOrders(rd) : TRUE),
     len |-> SumLen(Bytes(rd, CHOOSE it \in IterOrders(rd) : TRUE))]

\* the literal "<< >>" the page builder writes for a page without resources
EmptyResBytes == [bytes |-> <<Lit("<<", 2), Lit(" >>", 3)>>, len |-> 5]

----------------------------------------------------------------------------
(* Indirect objects. Every object has the same record shape; the fields a  *)
(* kind does not use keep their zero value. blen is the body's byte count. *)

\* the entries of an image dictionary; SMask 0 and Filter "": no such entry
ImageDict(colorSpace, bits, filter, smask) ==
    [ColorSpace |-> colorSpace, BitsPerComponent |-> bits, Filter |-> filter, SMask |-> smask]

NoImageDict == ImageDict("", 0, "", 0)

NewIndirectObject(num, kind, ref, kids, count, res, contents, font, blen) ==
    [Number |-> num, Generation |-> 0, kind |-> kind, ref |-> ref, kids |-> kids,
     count |-> count, res |-> res, contents |-> contents, font |-> font, blen |-> blen,
     image |-> NoImageDict, annots |-> <<>>]

NilObject == NewIndirectObject(0, "nil", 0, <<>>, 0, EmptyResBytes, 0, "", 0)

\* "<number> <generation> obj\n<body>\nendobj\n"
ObjectLen(obj) == Digits(obj.Number) + 1 + Digits(obj.Generation) + 5 + obj.blen + 8

\* one call of a write function on the bufio writer; body holds the object
\* (or the dictionary) the call writes, when it writes one
Tok(t, n, len) == [t |-> t, n |-> n, body |-> <<>>, len |-> len]
ObjTok(obj) == [t |-> "obj", n |-> obj.Number, body |-> <<obj>>, len |-> ObjectLen(obj)]

----------------------------------------------------------------------------
(* The sink and the bufio.Writer in front of it. A pass threads a record   *)
(* P through the code: the writer w, the environment (io: writes the sink  *)
(* still accepts, seek: which Seek of this call fails, 0 for none), the    *)
(* flag e (a step has returned an error: the code has returned, and the    *)
(* steps after it do nothing), the value v the last step returned, the     *)
(* local catalogRef of the write operations and the error err they return. *)

BufSize == 4096

NoError == ""

Pass(wr, env, seek) ==
    [w |-> wr, io |-> env, seek |-> seek, e |-> FALSE, v |-> 0, catalogRef |-> 0,
     err |-> NoError, log |-> <<>>]

\* the calls the page builder makes on its collaborators, in order: log
\* holds one entry per call, with the fonts the call is about
Log(P, call, fonts) == [P EXCEPT !.log = Append(@, [call |-> call, fonts |-> fonts])]

\* fmt.Errorf(msg + ": %w", err) at the return of a failed step
Errorf(P, msg) == IF P.e /\ P.err = NoError THEN [P EXCEPT !.err = msg] ELSE P

\* countingWriter.Write: cw.n += n
CountingWrite(n, written) == n + written

\* the sink takes the bytes p (a sequence of tokens)
SinkWrite(P, p) ==
    [P EXCEPT !.w.sink = @ \o p,
              !.w.n = IF P.w.file THEN @ ELSE CountingWrite(@, SumLen(p)),
              !.w.filePos = IF P.w.file THEN @ + SumLen(p) ELSE @,
              !.io = IF @ > 0 THEN @ - 1 ELSE @]

\* bufio.Writer.Flush: a failed write of the sink takes nothing, sticks to
\* the writer and keeps the bytes in the buffer
Flush(P) ==
    IF P.e THEN P
    ELSE IF P.w.berr THEN [P EXCEPT !.e = TRUE]
    ELSE IF P.w.buf = <<>> THEN P
    ELSE IF P.io = 0 THEN [P EXCEPT !.e = TRUE, !.w.berr = TRUE]
    ELSE [SinkWrite(P, P.w.buf) EXCEPT !.w.buf = <<>>]

\* the copy of a token into the buffer
Buffer(P, tok) == IF P.e THEN P ELSE [P EXCEPT !.w.buf = Append(@, tok)]

\* bufio.Writer.Write / WriteString of one token: buffered, the buffer
\* being flushed first when the token does not fit
BufWrite(P, tok) ==
    IF P.e THEN P
    ELSE IF P.w.berr THEN [P EXCEPT !.e = TRUE]
    ELSE Buffer(IF SumLen(P.w.buf) + tok.len > BufSize THEN Flush(P) ELSE P, tok)

\* a sequence of writes, each checked: the first failure ends it
RECURSIVE BufWriteAll(_, _)
BufWriteAll(P, toks) ==
    IF toks = <<>> THEN P ELSE BufWriteAll(BufWrite(P, Head(toks)), Tail(toks))

\* the position after the flush: file.Seek(0, io.SeekCurrent) or the counter
CurrentPosition(P) ==
    IF P.e THEN P
    ELSE IF P.w.file
    THEN IF P.seek = 1 THEN [P EXCEPT !.e = TRUE, !.seek = 0]
         ELSE [P EXCEPT !.v = P.w.filePos, !.seek = IF @ > 1 THEN @ - 1 ELSE @]
    ELSE [P EXCEPT !.v = P.w.n]

\* mutant of getCurrentOffset: the position is taken without a flush
getCurrentOffset_NoFlush(P) == CurrentPosition(P)

\* getCurrentOffset: flush, then the file position or the counted bytes
getCurrentOffset(P) == CurrentPosition(Flush(P))

\* allocateObjNum: the number is left in v
allocateObjNum(P) == [P EXCEPT !.v = P.w.nextObjNum, !.w.nextObjNum = @ + 1]

\* mutant of writeHeader: the binary marker is written before the version line
writeHeader_MarkerFirst(P) ==
    BufWriteAll(P, <<Tok("marker", 0, 6), Tok("%PDF-", 0, 5 + 3 + 1)>>)

\* writeHeader: "%PDF-<version>\n" and the binary marker
writeHeader(P) == BufWriteAll(P, <<Tok("%PDF-", 0, 5 + 3 + 1), Tok("marker", 0, 6)>>)

----------------------------------------------------------------------------
(* Collaborators of the page builder: content-stream generator and fonts   *)

\* the ID under which a standard font is registered: "std:" + name
StdFontID(f) == <<"std", f>>

\* the ID of an embedded font: "custom:" + fontID
CustomFontID(f) == <<"custom", f>>

\* the ID under which the generator registers the font of an operation
FontKey(f) == IF IsEmbedded(f) THEN CustomFontID(f) ELSE StdFontID(f)

\* a graphics operation as the writer receives it (GraphicsOp): Type 3 is
\* an image, 4 a watermark, 22 a text block, 0 a line. Opacity is in
\* hundredths (0: not set), TextSize in hundredths of a point
GraphicsOp(type, opacity, image, text, size, font) ==
    [Type |-> type, Opacity |-> opacity, Image |-> image, Text |-> text, TextSize |-> size,
     WatermarkFont |-> font]

\* ImageData: a 2 x 2 image, a PNG with an alpha mask of one byte per pixel
\* or a JPEG without one; NilImage is the nil pointer
ImageData(alpha) ==
    [nil |-> FALSE, Width |-> 2, Height |-> 2, ColorSpace |-> "DeviceRGB",
     BitsPerComponent |-> 8, Format |-> IF alpha THEN "png" ELSE "jpeg", Data |-> 12,
     AlphaMask |-> IF alpha THEN 4 ELSE 0]

NilImage == [ImageData(FALSE) EXCEPT !.nil = TRUE, !.Data = 0]

LineOp(opacity) == GraphicsOp(0, opacity, NilImage, "", 0, "")
ImageOp(alpha) == GraphicsOp(3, 0, ImageData(alpha), "", 0, "")
WatermarkOp(text, size, font, opacity) == GraphicsOp(4, opacity, NilImage, text, size, font)

\* fmt.Sprintf("%.2f", x) of a value given in hundredths: sign, digits of
\* the integer part, the two decimals
Sprintf2f(h) ==
    [neg |-> h < 0,
     int |-> Sprintd((IF h < 0 THEN -h ELSE h) \div 100),
     frac |-> <<((IF h < 0 THEN -h ELSE h) \div 10) % 10, (IF h < 0 THEN -h ELSE h) % 10>>]

\* an error of the generator: the message and the formatted value it ends with
GenError(msg, arg) == [msg |-> msg, arg |-> arg]
NoArg == [neg |-> FALSE, int |-> <<>>, frac |-> <<>>]
NoGenError == GenError("", NoArg)

\* the state of a generation: NewContentStreamWriter(), NewResourceDictionary()
NewGeneration == [csw |-> <<>>, resources |-> NewResourceDictionary, err |-> NoGenError]

\* mutant of renderWatermark: the font is registered before the operation
\* is validated
renderWatermark_RegisterFirst(G, gop) ==
    IF gop.Text = "" \/ gop.WatermarkFont = "" \/ gop.TextSize <= 0
    THEN [G EXCEPT !.resources = AddFontWithID(@, 0, StdFontID(gop.WatermarkFont)),
                   !.err = GenError("watermark text is empty", NoArg)]
    ELSE [G EXCEPT
            !.csw = @ \o <<"q">> \o (IF gop.Opacity < 100 THEN <<"gs">> ELSE <<>>)
                      \o <<"BT", "Tf", "Tj", "ET", "Q">>,
            !.resources = AddFontWithID(@, 0, StdFontID(gop.WatermarkFont))]

\* renderGraphicsOp, case 4: the watermark is validated, then its graphics
\* state (opacity below 1) and its font are registered and its text drawn
renderWatermark(G, gop) ==
    IF gop.Text = "" THEN [G EXCEPT !.err = GenError("watermark text is empty", NoArg)]
    ELSE IF gop.WatermarkFont = ""
    THEN [G EXCEPT !.err = GenError("watermark font is not set", NoArg)]
    ELSE IF gop.TextSize <= 0
    THEN [G EXCEPT !.err = GenError("watermark font size must be positive: ",
                                    Sprintf2f(gop.TextSize))]
    ELSE [G EXCEPT
            !.csw = @ \o <<"q">> \o (IF gop.Opacity < 100 THEN <<"gs">> ELSE <<>>)
                      \o <<"BT", "Tf", "Tj", "ET", "Q">>,
            !.resources =
                IF gop.Opacity < 100
                THEN AddFontWithID(GetOrCreateExtGState(@, gop.Opacity), 0,
                                   StdFontID(gop.WatermarkFont))
                ELSE AddFontWithID(@, 0, StdFontID(gop.WatermarkFont))]

\* renderGraphicsOp: an image is registered with the placeholder number 0
\* and drawn; a shape with an opacity takes the graphics state of that
\* opacity; the first error ends the generation
renderGraphicsOp(G, gop) ==
    IF G.err # NoGenError THEN G
    ELSE IF gop.Type = 4 THEN renderWatermark(G, gop)
    ELSE IF gop.Type = 3
    THEN [G EXCEPT !.csw = @ \o <<"q", "cm", "Do", "Q">>, !.resources = AddImage(@, 0)]
    ELSE IF gop.Opacity > 0
    THEN [G EXCEPT !.csw = @ \o <<"gs", "S">>,
                   !.resources = GetOrCreateExtGState(@, gop.Opacity)]
    ELSE [G EXCEPT !.csw = @ \o <<"S">>]

RECURSIVE renderGraphicsOps(_, _)
renderGraphicsOps(G, gops) ==
    IF gops = <<>> THEN G
    ELSE renderGraphicsOps(renderGraphicsOp(G, Head(gops)), Tail(gops))

\* GenerateContentStream: registers the font of each operation, in order,
\* with the placeholder number 0; len is the length of the stream object body
RECURSIVE RegisterFonts(_, _)
RegisterFonts(rd, ops) ==
    IF ops = <<>> THEN rd
    ELSE RegisterFonts(AddFontWithID(rd, 0, FontKey(Head(ops))), Tail(ops))

GenerateContentStream(textOps) ==
    [len |-> 40 + 12 * Len(textOps), resources |-> RegisterFonts(NewResourceDictionary, textOps),
     err |-> FALSE]

\* GenerateContentStreamWithGraphics: the graphics operations are rendered,
\* then the text operations; the first error ends the generation
GenerateContentStreamWithGraphics(textOps, gops) ==
    [len |-> 40 + 12 * Len(textOps) + 3 * Len(renderGraphicsOps(NewGeneration, gops).csw),
     resources |-> RegisterFonts(renderGraphicsOps(NewGeneration, gops).resources, textOps),
     err |-> renderGraphicsOps(NewGeneration, gops).err # NoGenError]

\* CreateFontObjects / FontCollection.Standard14: the fonts the operations use
CreateFontObjects(textOps) == Range(textOps)

\* CreateFontCollectionWithGraphics: the fonts of the text operations and of
\* the watermarks
CreateFontCollectionWithGraphics(textOps, gops) ==
    Range(textOps)
    \cup {gops[i].WatermarkFont : i \in {j \in 1..Len(gops) : gops[j].Type = 4}}

\* the dictionary WriteFontObject emits for a standard font
FontDictLen(f) == IF f = "Helvetica" THEN 54 ELSE 56

\* hasTextBlockOps: a graphics operation of type 22
hasTextBlockOps(gops) == \E i \in 1..Len(gops) : gops[i].Type = 22

\* the font map the page builder ranges over: that of CreateFontObjects for
\* a page of text operations, the Standard14 fonts of the collection for a
\* page with text content, none for a page of graphics only or for a page
\* whose generation fails (the loop is not reached)
FontMap(page) ==
    IF page.gfx = <<>> THEN CreateFontObjects(page.text)
    ELSE IF GenerateContentStreamWithGraphics(page.text, page.gfx).err THEN {}
    ELSE IF Len(page.text) > 0 \/ hasTextBlockOps(page.gfx)
    THEN CreateFontCollectionWithGraphics(page.text, page.gfx)
    ELSE {}

\* the orders in which the page builder can visit the fonts of a page: a
\* range over the standard fonts, then a range over the embedded fonts
PageFontOrders(page) ==
    {s \o m : s \in Perms({f \in FontMap(page) : ~IsEmbedded(f)}),
              m \in Perms({f \in FontMap(page) : IsEmbedded(f)})}

\* the orders in which a range over the font map can visit the fonts of a page
FontOrders(doc) ==
    {o \in [1..PageCount(doc) -> UNION {PageFontOrders(doc.pages[i]) : i \in 1..PageCount(doc)}] :
        \A i \in 1..PageCount(doc) : o[i] \in PageFontOrders(doc.pages[i])}

----------------------------------------------------------------------------
(* Page tree builder (pages.go)                                            *)

\* the font object of a standard font
FontObject(fontObjNum, f) ==
    NewIndirectObject(fontObjNum, "Font", 0, <<>>, 0, EmptyResBytes, 0, f, FontDictLen(f))

\* fontDef.WriteFontObject: the error it returns
WriteFontObject(f) == f = BrokenFont

\* TrueTypeFontWriter.WriteFont: the writer takes the number of the font
\* from the allocator, then that of its font file; the writer of font_2
\* returns an error after it has taken the first number
WriteFontFails(f) == f = "font_2"

\* the objects WriteFont returns: the font (the primary reference) and its
\* font file
EmbeddedFontObjects(fontObjNum, f) ==
    <<NewIndirectObject(fontObjNum, "Font", fontObjNum + 1, <<>>, 0, EmptyResBytes, 0, f, 120),
      NewIndirectObject(fontObjNum + 1, "FontFile", 0, <<>>, 0, EmptyResBytes, 0, f, 300)>>

\* the loops over the fonts of a page, in the order given: for a standard
\* font one number is allocated, then the font object is made and bound, a
\* failed WriteFontObject skipping the font; for an embedded font the font
\* writer allocates the numbers, a failed WriteFont skipping the font
RECURSIVE FontLoop(_, _, _, _)
FontLoop(P, order, resources, fontObjs) ==
    IF order = <<>> THEN [P EXCEPT !.v = [resources |-> resources, fontObjs |-> fontObjs]]
    ELSE IF IsEmbedded(Head(order))
    THEN IF WriteFontFails(Head(order))
         THEN FontLoop(Log(allocateObjNum(P), "WriteFont", {Head(order)}),
                       Tail(order), resources, fontObjs)
         ELSE FontLoop(Log(allocateObjNum(allocateObjNum(P)), "WriteFont", {Head(order)}),
                       Tail(order),
                       SetFontObjNumByID(resources, CustomFontID(Head(order)),
                                         allocateObjNum(P).v),
                       fontObjs \o EmbeddedFontObjects(allocateObjNum(P).v, Head(order)))
    ELSE IF WriteFontObject(Head(order))
    THEN FontLoop(Log(allocateObjNum(P), "WriteFontObject", {Head(order)}),
                  Tail(order), resources, fontObjs)
    ELSE FontLoop(Log(allocateObjNum(P), "WriteFontObject", {Head(order)}), Tail(order),
                  SetFontObjNumByID(resources, StdFontID(Head(order)), allocateObjNum(P).v),
                  Append(fontObjs, FontObject(allocateObjNum(P).v, Head(order))))

\* length of a page dictionary, given its resources and /Contents (0: none)
PageDictLen(parentRef, res, contents) ==
    2 + 12 + (9 + Digits(parentRef) + 4) + 36 + 12 + res.len
      + (IF contents > 0 THEN 11 + Digits(contents) + 4 ELSE 0) + 3

PageObject(objNum, parentRef, res, contents) ==
    NewIndirectObject(objNum, "Page", parentRef, <<>>, 0, res, contents, "",
                      PageDictLen(parentRef, res, contents))

\* CreateContentStreamObject
ContentObject(num, len) ==
    NewIndirectObject(num, "Content", 0, <<>>, 0, EmptyResBytes, 0, "", len)

\* a page without content: v = [pageObj, contentObj, fontObjs]
EmptyPage(P, objNum, parentRef) ==
    [P EXCEPT !.v = [pageObj |-> PageObject(objNum, parentRef, EmptyResBytes, 0),
                     contentObj |-> NilObject, fontObjs |-> <<>>]]

\* mutant of ContentPage: /Contents names the number after the one allocated
ContentPage_ContentsAhead(F, objNum, parentRef, len) ==
    [allocateObjNum(F) EXCEPT !.v =
        [pageObj |-> PageObject(objNum, parentRef, ResBytes(F.v.resources),
                                allocateObjNum(F).v + 1),
         contentObj |-> ContentObject(allocateObjNum(F).v, len),
         fontObjs |-> F.v.fontObjs]]

\* a page with content, F.v holding its resources and its font objects: the
\* number of the content stream is allocated after those of the fonts
ContentPage(F, objNum, parentRef, len) ==
    [allocateObjNum(F) EXCEPT !.v =
        [pageObj |-> PageObject(objNum, parentRef, ResBytes(F.v.resources),
                                allocateObjNum(F).v),
         contentObj |-> ContentObject(allocateObjNum(F).v, len),
         fontObjs |-> F.v.fontObjs]]

\* the part of createPageWithContent after the content stream is generated
PageOfStream(P, objNum, parentRef, gen, order) ==
    IF gen.err THEN EmptyPage(P, objNum, parentRef)
    ELSE ContentPage(FontLoop(P, order, gen.resources, <<>>), objNum, parentRef, gen.len)

\* createPageWithContent: v = [pageObj, contentObj, fontObjs]
createPageWithContent(P, objNum, parentRef, textOps, order) ==
    IF Len(textOps) > 0
    THEN PageOfStream(Log(Log(P, "createPageWithContent", {}), "GenerateContentStream", {}),
                      objNum, parentRef, GenerateContentStream(textOps), order)
    ELSE EmptyPage(Log(P, "createPageWithContent", {}), objNum, parentRef)


\* mutant of createImageXObject: the soft mask is not referenced
createImageXObject_NoSMask(objNum, img, smaskObjNum) ==
    [NewIndirectObject(objNum, "Image", 0, <<>>, 0, EmptyResBytes, 0, "",
                       33 + 17 + Digits(img.Width) + Digits(img.Height)
                          + 14 + 9 + 19 + Digits(img.BitsPerComponent) + 19
                          + 13 + Digits(img.Data) + 7 + img.Data + 10)
        EXCEPT !.image = ImageDict(img.ColorSpace, img.BitsPerComponent, "DCTDecode", 0)]

\* createImageXObject: the image dictionary and its stream; ColorSpace is
\* DeviceRGB, nine bytes
createImageXObject(objNum, img, smaskObjNum) ==
    [NewIndirectObject(objNum, "Image", 0, <<>>, 0, EmptyResBytes, 0, "",
                       33 + 17 + Digits(img.Width) + Digits(img.Height)
                          + 14 + 9 + 19 + Digits(img.BitsPerComponent)
                          + (IF img.Format = "jpeg" THEN 19
                             ELSE IF img.Format = "png" THEN 21 ELSE 0)
                          + (IF smaskObjNum > 0 THEN 12 + Digits(smaskObjNum) ELSE 0)
                          + 13 + Digits(img.Data) + 7 + img.Data + 10)
        EXCEPT !.image = ImageDict(img.ColorSpace, img.BitsPerComponent,
                                   IF img.Format = "jpeg" THEN "DCTDecode"
                                   ELSE IF img.Format = "png" THEN "FlateDecode" ELSE "",
                                   smaskObjNum)]

\* createSMaskObject: the soft mask of an image
createSMaskObject(objNum, img) ==
    [NewIndirectObject(objNum, "SMask", 0, <<>>, 0, EmptyResBytes, 0, "",
                       33 + 17 + Digits(img.Width) + Digits(img.Height) + 24 + 20 + 21
                          + 13 + Digits(img.AlphaMask) + 7 + img.AlphaMask + 10)
        EXCEPT !.image = ImageDict("DeviceGray", 8, "FlateDecode", 0)]

\* the images of the operations of type 3 that hold one, in order
RECURSIVE Images(_)
Images(gops) ==
    IF gops = <<>> THEN <<>>
    ELSE (IF Head(gops).Type = 3 /\ ~Head(gops).Image.nil THEN <<Head(gops).Image>> ELSE <<>>)
         \o Images(Tail(gops))

\* mutant of MaskedImage: the name is bound to the number of the soft mask
MaskedImage_BindSMask(A, imageObjNum, img, i) ==
    [allocateObjNum(A) EXCEPT !.v =
        [resources |-> SetImageObjNum(A.v.resources, i, allocateObjNum(A).v),
         fontObjs |-> A.v.fontObjs
                      \o <<createSMaskObject(allocateObjNum(A).v, img),
                           createImageXObject(imageObjNum, img, allocateObjNum(A).v)>>]]

\* the body of the loop of createAndAssignImageXObjects for an image with
\* an alpha mask, A being the pass after the number of the image is taken:
\* the soft mask takes the next number and is put before the image
MaskedImage(A, imageObjNum, img, i) ==
    [allocateObjNum(A) EXCEPT !.v =
        [resources |-> SetImageObjNum(A.v.resources, i, imageObjNum),
         fontObjs |-> A.v.fontObjs
                      \o <<createSMaskObject(allocateObjNum(A).v, img),
                           createImageXObject(imageObjNum, img, allocateObjNum(A).v)>>]]

\* the same for an image without an alpha mask
PlainImage(A, imageObjNum, img, i) ==
    [A EXCEPT !.v =
        [resources |-> SetImageObjNum(A.v.resources, i, imageObjNum),
         fontObjs |-> Append(A.v.fontObjs, createImageXObject(imageObjNum, img, 0))]]

\* the number of the image is allocated; v keeps the resources and objects
TakeImageNum(F) == [allocateObjNum(F) EXCEPT !.v = F.v]

\* createAndAssignImageXObjects, from image i on, and the append of its
\* objects to fontObjs: F.v = [resources, fontObjs]
RECURSIVE createAndAssignImageXObjects(_, _, _)
createAndAssignImageXObjects(F, images, i) ==
    IF i > Len(images) THEN F
    ELSE createAndAssignImageXObjects(
            IF images[i].AlphaMask > 0
            THEN MaskedImage(TakeImageNum(F), allocateObjNum(F).v, images[i], i)
            ELSE PlainImage(TakeImageNum(F), allocateObjNum(F).v, images[i], i),
            images, i + 1)

\* the length of the references "N 0 R" of an array, a space between two
RECURSIVE RefsLen(_)
RefsLen(refs) ==
    IF refs = <<>> THEN 0
    ELSE Digits(Head(refs)) + 4 + (IF Len(refs) > 1 THEN 1 ELSE 0) + RefsLen(Tail(refs))

\* an annotation object, its dictionary of 60 bytes
AnnotObject(objNum) ==
    NewIndirectObject(objNum, "Annot", 0, <<>>, 0, EmptyResBytes, 0, "", 60)

\* the numbers of n annotation objects allocated one after the other
AnnotRefs(first, n) == [k \in 1..n |-> first + k - 1]

\* WriteAllAnnotations: one object per annotation of the page, each taking
\* the next number of the allocator
RECURSIVE WriteAllAnnotations(_, _)
WriteAllAnnotations(P, n) ==
    IF n = 0 THEN P ELSE WriteAllAnnotations(allocateObjNum(P), n - 1)

\* the page dictionary with " /Annots [N 0 R ...]" written into it
WithAnnots(pageObj, refs) ==
    [pageObj EXCEPT !.annots = refs, !.blen = @ + 10 + RefsLen(refs) + 1]

\* "Add annotations if present", C.v = [pageObj, contentObj, fontObjs]: the
\* references go into /Annots, the objects after the font objects
AddAnnotations(C, annotationCount) ==
    IF annotationCount > 0
    THEN [WriteAllAnnotations(C, annotationCount) EXCEPT !.v =
            [pageObj |-> WithAnnots(C.v.pageObj, AnnotRefs(C.w.nextObjNum, annotationCount)),
             contentObj |-> C.v.contentObj,
             fontObjs |-> C.v.fontObjs
                          \o [k \in 1..annotationCount |-> AnnotObject(C.w.nextObjNum + k - 1)]]]
    ELSE C

\* mutant of PageOfAllStream: a failed generation is not noticed
PageOfAllStream_NoDegrade(P, objNum, parentRef, gen, order, hasTextContent, gops, annotationCount) ==
    AddAnnotations(
        ContentPage(createAndAssignImageXObjects(
                        IF hasTextContent
                        THEN FontLoop(P, order, gen.resources, <<>>)
                        ELSE [P EXCEPT !.v = [resources |-> gen.resources, fontObjs |-> <<>>]],
                        Images(gops), 1),
                    objNum, parentRef, gen.len),
        annotationCount)

\* mutant of PageOfAllStream: the number of the content stream is taken
\* before the failure of the generation is noticed
PageOfAllStream_NumberFirst(P, objNum, parentRef, gen, order, hasTextContent, gops, annotationCount) ==
    IF gen.err
    THEN EmptyPage(allocateObjNum(P), objNum, parentRef)
    ELSE AddAnnotations(
            ContentPage(createAndAssignImageXObjects(
                            IF hasTextContent
                            THEN FontLoop(P, order, gen.resources, <<>>)
                            ELSE [P EXCEPT !.v = [resources |-> gen.resources,
                                                  fontObjs |-> <<>>]],
                            Images(gops), 1),
                        objNum, parentRef, gen.len),
            annotationCount)

\* the part of createPageWithAllContent after the content stream is
\* generated: a failed generation returns the page at once; otherwise the
\* fonts are numbered (only for a page with text content), then the
\* images, then the content stream, then the annotations
PageOfAllStream(P, objNum, parentRef, gen, order, hasTextContent, gops, annotationCount) ==
    IF gen.err THEN EmptyPage(P, objNum, parentRef)
    ELSE AddAnnotations(
            ContentPage(createAndAssignImageXObjects(
                            IF hasTextContent
                            THEN FontLoop(P, order, gen.resources, <<>>)
                            ELSE [P EXCEPT !.v = [resources |-> gen.resources,
                                                  fontObjs |-> <<>>]],
                            Images(gops), 1),
                        objNum, parentRef, gen.len),
            annotationCount)

\* mutant of BuildSubsets: the subsets are built after the generator ran
BuildSubsets_AfterGenerate(P, hasTextContent, textOps, gops) ==
    IF hasTextContent
    THEN Log(Log(P, "GenerateContentStreamWithGraphics", {}), "Build",
             {f \in CreateFontCollectionWithGraphics(textOps, gops) : IsEmbedded(f)})
    ELSE Log(P, "GenerateContentStreamWithGraphics", {})

\* STEP 1 and STEP 2 of createPageWithAllContent: on a page with text
\* content the fonts are collected and the subset of every embedded font
\* of the collection is built (one entry of the log for the loop), then
\* the content-stream generator is called
BuildSubsets(P, hasTextContent, textOps, gops) ==
    IF hasTextContent
    THEN Log(Log(P, "Build",
                 {f \in CreateFontCollectionWithGraphics(textOps, gops) : IsEmbedded(f)}),
             "GenerateContentStreamWithGraphics", {})
    ELSE Log(P, "GenerateContentStreamWithGraphics", {})

\* createPageWithAllContent: v = [pageObj, contentObj, fontObjs]
createPageWithAllContent(P, objNum, parentRef, textOps, gops, order, annotationCount) ==
    IF Len(textOps) > 0 \/ Len(gops) > 0
    THEN PageOfAllStream(BuildSubsets(Log(P, "createPageWithAllContent", {}),
                                      Len(textOps) > 0 \/ hasTextBlockOps(gops), textOps, gops),
                         objNum, parentRef,
                         GenerateContentStreamWithGraphics(textOps, gops), order,
                         Len(textOps) > 0 \/ hasTextBlockOps(gops), gops, annotationCount)
    ELSE AddAnnotations(EmptyPage(Log(P, "createPageWithAllContent", {}), objNum, parentRef),
                        annotationCount)

\* createPagesRoot: << /Type /Pages /Kids [N 0 R ...] /Count N >>
\* mutant of createPagesRoot: /Kids lists the pages last to first
createPagesRoot_KidsReversed(objNum, pageRefs, count) ==
    NewIndirectObject(objNum, "Pages", 0, Reverse(pageRefs), count, EmptyResBytes, 0, "",
                      2 + 12 + 8 + RefsLen(pageRefs) + 1 + 8 + Digits(count) + 3)

createPagesRoot(objNum, pageRefs, count) ==
    NewIndirectObject(objNum, "Pages", 0, pageRefs, count, EmptyResBytes, 0, "",
                      2 + 12 + 8 + RefsLen(pageRefs) + 1 + 8 + Digits(count) + 3)

\* the end of the loop body: the page's reference and its objects (page,
\* content stream if any, fonts) are appended to those collected in acc
Collect(C, acc, pageRef) ==
    [C EXCEPT !.v =
        [pageRefs |-> Append(acc.pageRefs, pageRef),
         objects |-> acc.objects \o <<C.v.pageObj>>
                     \o (IF C.v.contentObj # NilObject THEN <<C.v.contentObj>> ELSE <<>>)
                     \o C.v.fontObjs]]

\* the loop body for one page: its number is allocated, then the page built
AddPage(P, page, order, all, pagesRootRef) ==
    Collect(IF all
            THEN createPageWithAllContent(allocateObjNum(P), allocateObjNum(P).v,
                                          pagesRootRef, page.text, page.gfx, order,
                                          page.annots)
            ELSE createPageWithContent(allocateObjNum(P), allocateObjNum(P).v,
                                       pagesRootRef, page.text, order),
            P.v, allocateObjNum(P).v)

\* the loop over the pages of createPageTreeWithContent (all = FALSE) and of
\* createPageTreeWithAllContent (all = TRUE), from page i on:
\* v = [pageRefs, objects]
RECURSIVE PageLoop(_, _, _, _, _, _)
PageLoop(P, doc, order, all, pagesRootRef, i) ==
    IF i > PageCount(doc) THEN P
    ELSE PageLoop(AddPage(P, doc.pages[i], order[i], all, pagesRootRef), doc, order, all,
                  pagesRootRef, i + 1)

\* the end of createPageTree: the Pages root is built and put first
WithPagesRoot(L, pagesRootRef, count) ==
    [L EXCEPT !.v = [objects |-> <<createPagesRoot(pagesRootRef, L.v.pageRefs, count)>>
                                 \o L.v.objects,
                     rootRef |-> pagesRootRef]]

\* createPageTreeWithContent / createPageTreeWithAllContent:
\* v = [objects, rootRef], the Pages root first
createPageTree(P, doc, order, all) ==
    WithPagesRoot(PageLoop([allocateObjNum(P) EXCEPT !.v = [pageRefs |-> <<>>, objects |-> <<>>]],
                           doc, order, all, allocateObjNum(P).v, 1),
                  allocateObjNum(P).v, PageCount(doc))

\* createCatalog: << /Type /Catalog /Pages <root> 0 R >>, its number allocated here
createCatalog(P, pagesRootRef) ==
    [allocateObjNum(P) EXCEPT !.v =
        NewIndirectObject(allocateObjNum(P).v, "Catalog", pagesRootRef, <<>>, 0, EmptyResBytes,
                          0, "", 25 + Digits(pagesRootRef) + 7)]

----------------------------------------------------------------------------
(* The file serializer (pdf_writer.go)                                     *)

\* the writer as NewPdfWriter (file = TRUE) and NewPdfWriterFromWriter build it
NewWriter(file) ==
    [file |-> file, fileOpen |-> file, filePos |-> 0, n |-> 0, sink |-> <<>>, buf |-> <<>>,
     berr |-> FALSE, objects |-> <<>>, offsets |-> EmptyMap, nextObjNum |-> 1,
     closed |-> FALSE]

\* mutant of HasMetadata: the Info branch is taken for every document
HasMetadata_Always(doc) == TRUE

\* the metadata test of writeTrailer
HasMetadata(doc) == doc.title # "" \/ doc.author # "" \/ doc.subject # ""

\* createInfo: the present fields and the two dates
createInfo(objNum, doc) ==
    NewIndirectObject(objNum, "Info", 0, <<>>, 0, EmptyResBytes, 0, "",
        2 + (IF doc.title # "" THEN 10 + 1 ELSE 0) + (IF doc.author # "" THEN 11 + 1 ELSE 0)
          + (IF doc.subject # "" THEN 12 + 1 ELSE 0) + 40 + 35 + 3)

\* "Add pages objects to write queue": v = the reference of the Pages root
AddPagesObjects(T) == [T EXCEPT !.w.objects = @ \o T.v.objects, !.v = T.v.rootRef]

\* catalogObj := w.createCatalog(pagesRootRef, doc)
CreateCatalog(T) == createCatalog(T, T.v)

\* mutant of AddCatalog: the catalog is put last in the write queue
AddCatalog_Append(C) == [C EXCEPT !.w.objects = Append(@, C.v), !.catalogRef = C.v.Number]

\* the catalog C.v is put first in the write queue
AddCatalog(C) == [C EXCEPT !.w.objects = <<C.v>> \o @, !.catalogRef = C.v.Number]

\* "Create pages tree first", then the catalog
CreateStructure(P, doc, order, all) ==
    IF P.e THEN P
    ELSE AddCatalog(CreateCatalog(AddPagesObjects(createPageTree(P, doc, order, all))))

\* w.offsets[obj.Number] = pos
SetOffset(P, num) == IF P.e THEN P ELSE [P EXCEPT !.w.offsets = Put(@, num, P.v)]

\* the "Write all objects and track their offsets" loop
RECURSIVE WriteObjects(_, _)
WriteObjects(P, objs) ==
    IF P.e \/ objs = <<>> THEN P
    ELSE WriteObjects(
            Errorf(BufWrite(SetOffset(Errorf(getCurrentOffset(P), "failed to get file position"),
                                      Head(objs).Number),
                            ObjTok(Head(objs))),
                   "failed to write object"),
            Tail(objs))

\* "Write all objects": the queue of the writer
WriteAllObjects(P) == IF P.e THEN P ELSE WriteObjects(P, P.w.objects)

\* mutant of XRefEntries: a number without an offset is passed over
RECURSIVE XRefEntries_SkipMissing(_, _)
XRefEntries_SkipMissing(P, i) ==
    IF P.e \/ i >= P.w.nextObjNum THEN P
    ELSE IF ~Has(P.w.offsets, i) THEN XRefEntries_SkipMissing(P, i + 1)
    ELSE XRefEntries_SkipMissing(
            BufWrite(P, Tok("n", P.w.offsets[i], Max(10, Digits(P.w.offsets[i])) + 10)), i + 1)

\* the entry loop of writeXRef, from object number i on
RECURSIVE XRefEntries(_, _)
XRefEntries(P, i) ==
    IF P.e \/ i >= P.w.nextObjNum THEN P
    ELSE IF ~Has(P.w.offsets, i) THEN [P EXCEPT !.e = TRUE]
    ELSE XRefEntries(BufWrite(P, Tok("n", P.w.offsets[i], Max(10, Digits(P.w.offsets[i])) + 10)),
                     i + 1)

\* mutant of XRefSection: the subsection header counts the objects only
XRefSection_CountObjects(O) ==
    [XRefEntries(BufWriteAll(O, <<Tok("xref", 0, 5),
                                  Tok("subsection", O.w.nextObjNum - 1,
                                      2 + Digits(O.w.nextObjNum - 1) + 1),
                                  Tok("f", 0, 20)>>), 1)
        EXCEPT !.v = O.v]

\* the xref section written at the offset O.v: keyword, subsection header,
\* the free entry of object 0 and the entries; v = the offset again
XRefSection(O) ==
    [XRefEntries(BufWriteAll(O, <<Tok("xref", 0, 5),
                                  Tok("subsection", O.w.nextObjNum,
                                      2 + Digits(O.w.nextObjNum) + 1),
                                  Tok("f", 0, 20)>>), 1)
        EXCEPT !.v = O.v]

\* writeXRef: v = the offset at which the xref section starts
writeXRef(P) == IF P.e THEN P ELSE XRefSection(getCurrentOffset(P))

\* the trailer dictionary: /Size, /Root and, with info > 0, /Info
TrailerDict(size, catalogRef, info) ==
    [t |-> "trailerdict", n |-> size,
     body |-> <<[Size |-> size, Root |-> catalogRef, Info |-> info]>>,
     len |-> 2 + (7 + Digits(size)) + (7 + Digits(catalogRef) + 4)
               + (IF info > 0 THEN 7 + Digits(info) + 4 ELSE 0) + 3]

\* the Info branch of writeTrailer: with metadata a number is allocated, the
\* Info object appended to the object list and xrefOffset recorded as its
\* offset; the object is not written. v = infoRef, or 0 without metadata
AddInfo(P, xrefOffset, doc) ==
    IF P.e \/ ~HasMetadata(doc) THEN [P EXCEPT !.v = 0]
    ELSE [allocateObjNum(P) EXCEPT
            !.w.objects = Append(@, createInfo(allocateObjNum(P).v, doc)),
            !.w.offsets = Put(@, allocateObjNum(P).v, xrefOffset)]

\* the trailer after the keyword: dictionary, startxref, offset, EOF marker
TrailerTail(P, catalogRef, size, xrefOffset) ==
    BufWriteAll(P, <<TrailerDict(size, catalogRef, P.v),
                     Tok("newline", 0, 1),
                     Tok("startxref", 0, 10),
                     Tok("xrefoffset", xrefOffset, Digits(xrefOffset) + 1),
                     Tok("%%EOF", 0, 6)>>)

\* writeTrailer
writeTrailer(P, catalogRef, size, xrefOffset, doc) ==
    IF P.e THEN P
    ELSE TrailerTail(AddInfo(BufWrite(P, Tok("trailer", 0, 8)), xrefOffset, doc),
                     catalogRef, size, xrefOffset)

\* "Write trailer": catalogRef := catalogObj.Number, size := w.nextObjNum
WriteTrailer(P, doc) ==
    IF P.e THEN P ELSE writeTrailer(P, P.catalogRef, P.w.nextObjNum, P.v, doc)

\* mutant of FinalFlush: the write operation returns without flushing
FinalFlush_NoFlush(P) == P

\* the final Flush of a write operation
FinalFlush(P) == Errorf(Flush(P), "failed to flush writer")

\* mutant of ClosedCheck: the write operations do not test w.closed
ClosedCheck_Never(wr) == FALSE

\* the closed test at the entry of the write operations
ClosedCheck(wr) == wr.closed

\* mutant of ResetState: the allocator is not reset
ResetState_KeepAllocator(wr) == [wr EXCEPT !.objects = <<>>, !.offsets = EmptyMap]

\* "Reset state": object list, offset table and allocator
ResetState(wr) == [wr EXCEPT !.objects = <<>>, !.offsets = EmptyMap, !.nextObjNum = 1]

\* mutant of EntryError: the document is not validated
EntryError_NoValidate(wr, doc) == IF wr.closed THEN "writer is closed" ELSE NoError

\* the entry of the write operations: the closed test, then doc.Validate()
EntryError(wr, doc) ==
    IF ClosedCheck(wr) THEN "writer is closed"
    ELSE IF ~Validate(doc) THEN "document validation failed"
    ELSE NoError

\* Write (op = "Write"), WriteWithPageContent and WriteWithAllContent: the
\* writer, the environment and the error after the call
WritePass(wr, env, op, doc, order, seek) ==
    IF EntryError(wr, doc) # NoError
    THEN [Pass(wr, env, seek) EXCEPT !.err = EntryError(wr, doc)]
    ELSE FinalFlush(
            Errorf(WriteTrailer(
                Errorf(writeXRef(
                    WriteAllObjects(
                        CreateStructure(
                            Errorf(writeHeader(Pass(ResetState(wr), env, seek)),
                                   "failed to write header"),
                            IF op = "Write" THEN NoContent(doc) ELSE doc,
                            order, op = "WriteWithAllContent"))),
                    "failed to write xref"),
                doc), "failed to write trailer"))

\* the end of Close, F being the pass after the flush: a failed flush closes
\* the file and returns; otherwise the file is closed
CloseFile(F, closeFail) ==
    IF F.e THEN [F EXCEPT !.w.fileOpen = FALSE, !.err = "failed to flush buffer"]
    ELSE IF F.w.file
    THEN [F EXCEPT !.w.fileOpen = FALSE,
                   !.err = IF closeFail THEN "failed to close file" ELSE NoError]
    ELSE F

\* mutant of ClosePass: closed is set only when the flush succeeded
ClosePass_ClosedOnSuccess(wr, env, closeFail) ==
    IF wr.closed THEN Pass(wr, env, 0)
    ELSE LET F == CloseFile(Flush(Pass(wr, env, 0)), closeFail)
         IN  [F EXCEPT !.w.closed = ~F.e]

\* Close; closeFail: file.Close returns an error
ClosePass(wr, env, closeFail) ==
    IF wr.closed THEN Pass(wr, env, 0)
    ELSE CloseFile(Flush(Pass([wr EXCEPT !.closed = TRUE], env, 0)), closeFail)

----------------------------------------------------------------------------
(* The resource registry under its callers: one call of its API at a time, *)
(* on an empty registry or on one that already holds FilledFonts fonts.    *)

FilledFonts == 9

\* the font IDs and the opacities (in hundredths) the callers use
FontIDs == {StdFontID("Helvetica"), <<"custom", "font_1">>}
Opacities == {30, 50}

\* the graphics operations rendered next to the registry
RenderOps ==
    {WatermarkOp(t, s, f, o) : t \in {"", "DRAFT"}, s \in {-1050, 0, 4800},
                               f \in {"", "Helvetica"}, o \in {50, 100}}
    \cup {LineOp(50), ImageOp(TRUE)}

RECURSIVE Filled(_)
Filled(n) == IF n = 0 THEN NewResourceDictionary ELSE AddFont(Filled(n - 1), 5)

NoIter == [fonts |-> <<>>, xobjects |-> <<>>, extgstates |-> <<>>]

\* the record of a call: the key is a font ID (id) or an opacity or a name
\* (num); first: the key had not been handed to this operation before
RCall(op, id, num, objNum, name, ok, first, it, out, gop, err, before, cswBefore) ==
    [op |-> op, id |-> id, num |-> num, objNum |-> objNum, name |-> name, ok |-> ok,
     first |-> first, it |-> it, out |-> out, gop |-> gop, err |-> err, pre |-> before,
     cswPre |-> cswBefore]

NoRCall ==
    RCall("New", <<>>, 0, 0, 0, FALSE, FALSE, NoIter, <<>>, LineOp(0), NoGenError,
          NewResourceDictionary, <<>>)

\* what the callers have seen: the number of calls, the name each font ID
\* and each opacity was first given, and the graphics-state names handed out
NoHist == [n |-> 0, fontName |-> EmptyMap, gsName |-> EmptyMap, gs |-> {}]

Remember(hist, after) ==
    [n |-> hist.n + 1,
     fontName |-> [id \in (DOMAIN hist.fontName) \cup (DOMAIN after.fontIDs) |->
                     IF Has(hist.fontName, id) THEN hist.fontName[id] ELSE after.fontIDs[id]],
     gsName |-> [o \in (DOMAIN hist.gsName) \cup (DOMAIN after.extgstateCache) |->
                   IF Has(hist.gsName, o) THEN hist.gsName[o] ELSE after.extgstateCache[o]],
     gs |-> hist.gs \cup (DOMAIN after.extgstates)]

RegistryIdle ==
    /\ dict = NewResourceDictionary
    /\ csw = <<>>
    /\ rcall = NoRCall
    /\ rhist = NoHist

RegistryInit ==
    /\ dict \in {NewResourceDictionary, Filled(FilledFonts)}
    /\ csw = <<>>
    /\ rcall = [NoRCall EXCEPT !.pre = dict]
    /\ rhist = NoHist

\* what every call does besides its own effect
Called ==
    /\ rhist' = Remember(rhist, dict')
    /\ UNCHANGED <<writerVars, pageVars>>

CallAddFont ==
    /\ rhist.n < MaxRegOps
    /\ dict' = AddFont(dict, 5)
    /\ rcall' = RCall("AddFont", <<>>, 0, 5, AddFontName(dict), TRUE, TRUE, NoIter, <<>>,
                      LineOp(0), NoGenError, dict, csw)
    /\ UNCHANGED csw
    /\ Called

CallAddFontWithID ==
    \E fontID \in FontIDs, objNum \in {0, 6} :
        /\ rhist.n < MaxRegOps
        /\ dict' = AddFontWithID(dict, objNum, fontID)
        /\ rcall' = RCall("AddFontWithID", fontID, 0, objNum, AddFontWithIDName(dict, fontID),
                          TRUE, ~Has(rhist.fontName, fontID), NoIter, <<>>, LineOp(0),
                          NoGenError, dict, csw)
        /\ UNCHANGED csw
        /\ Called

CallSetFontObjNumByID ==
    \E fontID \in FontIDs :
        /\ rhist.n < MaxRegOps
        /\ dict' = SetFontObjNumByID(dict, fontID, 7)
        /\ rcall' = RCall("SetFontObjNumByID", fontID, 0, 7, 0,
                          SetFontObjNumByIDOk(dict, fontID), FALSE, NoIter, <<>>, LineOp(0),
                          NoGenError, dict, csw)
        /\ UNCHANGED csw
        /\ Called

CallAddImage ==
    /\ rhist.n < MaxRegOps
    /\ dict' = AddImage(dict, 4)
    /\ rcall' = RCall("AddImage", <<>>, 0, 4, AddImageName(dict), TRUE, TRUE, NoIter, <<>>,
                      LineOp(0), NoGenError, dict, csw)
    /\ UNCHANGED csw
    /\ Called

CallAddExtGState ==
    /\ rhist.n < MaxRegOps
    /\ dict' = AddExtGState(dict, 9)
    /\ rcall' = RCall("AddExtGState", <<>>, 0, 9, AddExtGStateName(dict), TRUE, TRUE, NoIter,
                      <<>>, LineOp(0), NoGenError, dict, csw)
    /\ UNCHANGED csw
    /\ Called

CallGetOrCreateExtGState ==
    \E opacity \in Opacities :
        /\ rhist.n < MaxRegOps
        /\ dict' = GetOrCreateExtGState(dict, opacity)
        /\ rcall' = RCall("GetOrCreateExtGState", <<>>, opacity, 0,
                          GetOrCreateExtGStateName(dict, opacity),
                          GetOrCreateExtGStateIsNew(dict, opacity), ~Has(rhist.gsName, opacity),
                          NoIter, <<>>, LineOp(0), NoGenError, dict, csw)
        /\ UNCHANGED csw
        /\ Called

CallSetExtGStateObjNum ==
    \E name \in 1..2 :
        /\ rhist.n < MaxRegOps
        /\ dict' = SetExtGStateObjNum(dict, name, 8)
        /\ rcall' = RCall("SetExtGStateObjNum", <<>>, name, 8, name,
                          SetExtGStateObjNumOk(dict, name), FALSE, NoIter, <<>>, LineOp(0),
                          NoGenError, dict, csw)
        /\ UNCHANGED csw
        /\ Called

CallBytes ==
    \E it \in IterOrders(dict) :
        /\ rhist.n < MaxRegOps
        /\ rcall' = RCall("Bytes", <<>>, 0, 0, 0, TRUE, FALSE, it, Bytes(dict, it), LineOp(0),
                          NoGenError, dict, csw)
        /\ UNCHANGED <<dict, csw>>
        /\ Called

CallRenderGraphicsOp ==
    \E gop \in RenderOps :
        \E G \in {renderGraphicsOp([csw |-> csw, resources |-> dict, err |-> NoGenError], gop)} :
            /\ rhist.n < MaxRegOps
            /\ dict' = G.resources
            /\ csw' = G.csw
            /\ rcall' = RCall("renderGraphicsOp", <<>>, 0, 0, 0, G.err = NoGenError, FALSE,
                              NoIter, <<>>, gop, G.err, dict, csw)
            /\ Called

----------------------------------------------------------------------------
(* The drawing operations of a creator page (Page.DrawLine and the other   *)
(* drawing methods). A float is kept                                       *)
(* in hundredths (a colour component 1.0 is 100), a coordinate of a Bezier *)
(* segment in thousandths. A pointer is a record: nil, or the value.       *)

NilOpacity == [nil |-> TRUE, v |-> 0]
OpacityOf(v) == [nil |-> FALSE, v |-> v]

NilColor == [nil |-> TRUE, R |-> 0, G |-> 0, B |-> 0]
Color(r, g, b) == [nil |-> FALSE, R |-> r, G |-> g, B |-> b]
Black == Color(0, 0, 0)
Red == Color(100, 0, 0)

\* a CMYK colour (*ColorCMYK)
NilColorCMYK == [nil |-> TRUE, C |-> 0, M |-> 0, Y |-> 0, K |-> 0]
ColorCMYK(c, m, y, k) == [nil |-> FALSE, C |-> c, M |-> m, Y |-> y, K |-> k]

\* a gradient; stops: the number of its colour stops
NilGradient == [nil |-> TRUE, stops |-> 0]
Gradient(stops) == [nil |-> FALSE, stops |-> stops]

\* an error is the sequence of the parts of its message
NoErr == <<>>
ErrorsNew(msg) == <<msg>>

\* validateColor: every component lies in [0, 1]
validateColor(c) ==
    IF c.R \in 0..100 /\ c.G \in 0..100 /\ c.B \in 0..100 THEN NoErr
    ELSE ErrorsNew("color components must be in range [0.0, 1.0]")

\* Gradient.Validate: a gradient has at least two colour stops
GradientValidate(g) ==
    IF g.stops >= 2 THEN NoErr ELSE ErrorsNew("gradient must have at least 2 color stops")

\* the options of a shape; a kind that has no such field keeps it at zero
Options(stroke, strokeWidth, fill, gradient, color, width, closed, opacity) ==
    [nil |-> FALSE, StrokeColor |-> stroke, StrokeColorCMYK |-> NilColorCMYK,
     StrokeWidth |-> strokeWidth, FillColor |-> fill, FillColorCMYK |-> NilColorCMYK,
     FillGradient |-> gradient, Color |-> color, Width |-> width, Closed |-> closed,
     Opacity |-> opacity]

NilOptions ==
    [Options(NilColor, 0, NilColor, NilGradient, Black, 0, FALSE, NilOpacity)
        EXCEPT !.nil = TRUE]

\* EllipseOptions, PolygonOptions, RectOptions, CircleOptions
ShapeOptions(stroke, strokeWidth, fill, gradient, opacity) ==
    Options(stroke, strokeWidth, fill, gradient, Black, 0, FALSE, opacity)

\* EllipseOptions, PolygonOptions with the CMYK colours set
ShapeOptionsCMYK(opts, strokeCMYK, fillCMYK) ==
    [opts EXCEPT !.StrokeColorCMYK = strokeCMYK, !.FillColorCMYK = fillCMYK]

\* PolylineOptions, LineOptions
LineOptions(color, width, opacity) ==
    Options(NilColor, 0, NilColor, NilGradient, color, width, FALSE, opacity)

\* BezierOptions
BezierOptions(color, width, closed, fill, gradient, opacity) ==
    Options(NilColor, 0, fill, gradient, color, width, closed, opacity)

\* a stored GraphicsOperation; Opts is the options field of its Type
GraphicsOperation(type, rx, ry, vertices, segs, opts) ==
    [Type |-> type, RX |-> rx, RY |-> ry, Vertices |-> vertices, BezierSegs |-> segs,
     Opts |-> opts]

\* the result of a drawing call: the list of the page and the error
Drawn(ops, err) == [graphicsOps |-> ops, err |-> err]

\* validateEllipseOptions, validatePolygonOptions: shape is the word the
\* message begins with
validateShapeOptions(opts, shape) ==
    IF ~opts.StrokeColor.nil /\ validateColor(opts.StrokeColor) # NoErr
    THEN <<"stroke ">> \o validateColor(opts.StrokeColor)
    ELSE IF ~opts.FillColor.nil /\ validateColor(opts.FillColor) # NoErr
    THEN <<"fill ">> \o validateColor(opts.FillColor)
    ELSE IF opts.StrokeWidth < 0 THEN ErrorsNew("stroke width must be non-negative")
    ELSE IF opts.StrokeColor.nil /\ opts.FillColor.nil /\ opts.FillGradient.nil
    THEN <<shape, " must have at least stroke, fill color, or gradient">>
    ELSE IF ~opts.FillColor.nil /\ ~opts.FillGradient.nil
    THEN ErrorsNew("cannot use both fill color and fill gradient")
    ELSE IF ~opts.FillGradient.nil /\ GradientValidate(opts.FillGradient) # NoErr
    THEN <<"fill gradient: ">> \o GradientValidate(opts.FillGradient)
    ELSE NoErr

validateEllipseOptions(opts) == validateShapeOptions(opts, "ellipse")

validatePolygonOptions(opts) == validateShapeOptions(opts, "polygon")

validatePolylineOptions(opts) ==
    IF validateColor(opts.Color) # NoErr THEN validateColor(opts.Color)
    ELSE IF opts.Width < 0 THEN ErrorsNew("line width must be non-negative")
    ELSE NoErr

validateBezierOptions(opts) ==
    IF validateColor(opts.Color) # NoErr THEN validateColor(opts.Color)
    ELSE IF opts.Width < 0 THEN ErrorsNew("curve width must be non-negative")
    ELSE IF ~opts.FillColor.nil /\ validateColor(opts.FillColor) # NoErr
    THEN <<"fill ">> \o validateColor(opts.FillColor)
    ELSE IF ~opts.FillColor.nil /\ ~opts.Closed
    THEN ErrorsNew("fill color requires closed curve (set Closed: true)")
    ELSE IF ~opts.FillColor.nil /\ ~opts.FillGradient.nil
    THEN ErrorsNew("cannot use both fill color and fill gradient")
    ELSE IF ~opts.FillGradient.nil /\ ~opts.Closed
    THEN ErrorsNew("fill gradient requires closed curve (set Closed: true)")
    ELSE IF ~opts.FillGradient.nil /\ GradientValidate(opts.FillGradient) # NoErr
    THEN <<"fill gradient: ">> \o GradientValidate(opts.FillGradient)
    ELSE NoErr

abs(x) == IF x < 0 THEN -x ELSE x

\* the tolerance of the continuity test of DrawBezierCurve, 0.001
epsilon == 1

DrawEllipse(ops, rx, ry, opts) ==
    IF opts.nil THEN Drawn(ops, ErrorsNew("ellipse options cannot be nil"))
    ELSE IF rx < 0 THEN Drawn(ops, ErrorsNew("horizontal radius must be non-negative"))
    ELSE IF ry < 0 THEN Drawn(ops, ErrorsNew("vertical radius must be non-negative"))
    ELSE IF validateEllipseOptions(opts) # NoErr THEN Drawn(ops, validateEllipseOptions(opts))
    ELSE Drawn(Append(ops, GraphicsOperation("GraphicsOpEllipse", rx, ry, <<>>, <<>>, opts)),
               NoErr)

\* mutant of DrawPolygon: the operation is stored before it is validated
DrawPolygon_AppendFirst(ops, vertices, opts) ==
    Drawn(Append(ops, GraphicsOperation("GraphicsOpPolygon", 0, 0, vertices, <<>>, opts)),
          IF opts.nil THEN ErrorsNew("polygon options cannot be nil")
          ELSE IF Len(vertices) < 3 THEN ErrorsNew("polygon must have at least 3 vertices")
          ELSE validatePolygonOptions(opts))

DrawPolygon(ops, vertices, opts) ==
    IF opts.nil THEN Drawn(ops, ErrorsNew("polygon options cannot be nil"))
    ELSE IF Len(vertices) < 3
    THEN Drawn(ops, ErrorsNew("polygon must have at least 3 vertices"))
    ELSE IF validatePolygonOptions(opts) # NoErr THEN Drawn(ops, validatePolygonOptions(opts))
    ELSE Drawn(Append(ops, GraphicsOperation("GraphicsOpPolygon", 0, 0, vertices, <<>>, opts)),
               NoErr)

DrawPolyline(ops, vertices, opts) ==
    IF opts.nil THEN Drawn(ops, ErrorsNew("polyline options cannot be nil"))
    ELSE IF Len(vertices) < 2
    THEN Drawn(ops, ErrorsNew("polyline must have at least 2 vertices"))
    ELSE IF validatePolylineOptions(opts) # NoErr
    THEN Drawn(ops, validatePolylineOptions(opts))
    ELSE Drawn(Append(ops, GraphicsOperation("GraphicsOpPolyline", 0, 0, vertices, <<>>, opts)),
               NoErr)

\* a segment is <<Start, End>>, a point <<X, Y>>
Continuous(segments) ==
    \A i \in 2..Len(segments) :
        ~(\/ abs(segments[i - 1][2][1] - segments[i][1][1]) > epsilon
          \/ abs(segments[i - 1][2][2] - segments[i][1][2]) > epsilon)

\* mutant of DrawBezierCurve: the options are validated before the segments
DrawBezierCurve_OptionsFirst(ops, segments, opts) ==
    IF opts.nil THEN Drawn(ops, ErrorsNew("bezier curve options cannot be nil"))
    ELSE IF validateBezierOptions(opts) # NoErr THEN Drawn(ops, validateBezierOptions(opts))
    ELSE IF Len(segments) = 0
    THEN Drawn(ops, ErrorsNew("bezier curve must have at least 1 segment"))
    ELSE IF ~Continuous(segments)
    THEN Drawn(ops, ErrorsNew("bezier segments must be continuous (segment start point must match previous segment end point)"))
    ELSE Drawn(Append(ops, GraphicsOperation("GraphicsOpBezier", 0, 0, <<>>, segments, opts)),
               NoErr)

DrawBezierCurve(ops, segments, opts) ==
    IF opts.nil THEN Drawn(ops, ErrorsNew("bezier curve options cannot be nil"))
    ELSE IF Len(segments) = 0
    THEN Drawn(ops, ErrorsNew("bezier curve must have at least 1 segment"))
    ELSE IF ~Continuous(segments)
    THEN Drawn(ops, ErrorsNew("bezier segments must be continuous (segment start point must match previous segment end point)"))
    ELSE IF validateBezierOptions(opts) # NoErr THEN Drawn(ops, validateBezierOptions(opts))
    ELSE Drawn(Append(ops, GraphicsOperation("GraphicsOpBezier", 0, 0, <<>>, segments, opts)),
               NoErr)

\* DrawLine, DrawRect, DrawCircle: the options are validated, then the
\* operation is stored
DrawLine(ops, opts) ==
    IF opts.nil THEN Drawn(ops, ErrorsNew("line options cannot be nil"))
    ELSE IF validatePolylineOptions(opts) # NoErr
    THEN Drawn(ops, validatePolylineOptions(opts))
    ELSE Drawn(Append(ops, GraphicsOperation("GraphicsOpLine", 0, 0, <<>>, <<>>, opts)), NoErr)

DrawRect(ops, opts) ==
    IF opts.nil THEN Drawn(ops, ErrorsNew("rectangle options cannot be nil"))
    ELSE IF validateShapeOptions(opts, "rectangle") # NoErr
    THEN Drawn(ops, validateShapeOptions(opts, "rectangle"))
    ELSE Drawn(Append(ops, GraphicsOperation("GraphicsOpRect", 0, 0, <<>>, <<>>, opts)), NoErr)

DrawCircle(ops, radius, opts) ==
    IF opts.nil THEN Drawn(ops, ErrorsNew("circle options cannot be nil"))
    ELSE IF radius < 0 THEN Drawn(ops, ErrorsNew("radius must be non-negative"))
    ELSE IF validateShapeOptions(opts, "circle") # NoErr
    THEN Drawn(ops, validateShapeOptions(opts, "circle"))
    ELSE Drawn(Append(ops, GraphicsOperation("GraphicsOpCircle", radius, radius, <<>>, <<>>,
                                             opts)), NoErr)

\* the arguments the drawing operations are called with
OpacityArgs == {NilOpacity, OpacityOf(50)}

ShapeOptionArgs ==
    {NilOptions,
     ShapeOptions(NilColor, 0, Red, NilGradient, NilOpacity),
     ShapeOptions(NilColor, 0, Red, Gradient(2), NilOpacity),
     ShapeOptions(NilColor, 0, Color(150, 0, 0), NilGradient, NilOpacity),
     ShapeOptions(Color(0, -20, 0), 1, NilColor, NilGradient, NilOpacity)}
    \cup {ShapeOptions(s, sw, NilColor, g, OpacityOf(50)) :
            s \in {NilColor, Black}, sw \in {-1, 1}, g \in {NilGradient, Gradient(1)}}
    \cup {ShapeOptions(NilColor, 0, NilColor, Gradient(2), OpacityOf(30))}
    \cup {ShapeOptionsCMYK(ShapeOptions(NilColor, 1, NilColor, NilGradient, NilOpacity),
                            ColorCMYK(100, 0, 0, 0), NilColorCMYK),
          ShapeOptionsCMYK(ShapeOptions(NilColor, 0, NilColor, NilGradient, NilOpacity),
                            NilColorCMYK, ColorCMYK(0, 100, 0, 0)),
          ShapeOptionsCMYK(ShapeOptions(NilColor, 0, NilColor, Gradient(2), NilOpacity),
                            NilColorCMYK, ColorCMYK(0, 100, 0, 0))}

LineOptionArgs ==
    {NilOptions, LineOptions(Color(0, 0, -20), 2, NilOpacity), LineOptions(Black, -2, NilOpacity)}
    \cup {LineOptions(Black, 2, o) : o \in OpacityArgs}

BezierOptionArgs ==
    {NilOptions,
     BezierOptions(Color(0, 0, -20), 2, FALSE, NilColor, NilGradient, NilOpacity),
     BezierOptions(Black, -2, FALSE, NilColor, NilGradient, NilOpacity),
     BezierOptions(Black, 2, FALSE, NilColor, NilGradient, OpacityOf(50)),
     BezierOptions(Black, 2, TRUE, Color(150, 0, 0), NilGradient, NilOpacity),
     BezierOptions(Black, 2, TRUE, Red, Gradient(2), NilOpacity)}
    \cup {BezierOptions(Black, 2, cl, Red, NilGradient, NilOpacity) : cl \in BOOLEAN}
    \cup {BezierOptions(Black, 2, cl, NilColor, Gradient(1), NilOpacity) : cl \in BOOLEAN}

Triangle == <<<<0, 0>>, <<100, 0>>, <<0, 100>>>>

VertexArgs(S) == {SubSeq(Triangle, 1, n) : n \in S}

Segment(from, to) == <<from, to>>

SegmentArgs ==
    {<<>>, <<Segment(<<0, 0>>, <<5000, 5000>>)>>}
    \cup {<<Segment(<<0, 0>>, <<5000, 5000>>), Segment(<<5000 + d, 5000>>, <<9000, 0>>)>> :
            d \in 1..2}
    \cup {<<Segment(<<0, 0>>, <<5000, 5000>>), Segment(<<5000, 5000 - 2>>, <<9000, 0>>)>>}

\* the radii an ellipse is drawn with
RadiusArgs == {<<-100, 5000>>, <<10000, -100>>, <<10000, 5000>>}

\* the record of a drawing call; n counts the calls made on the page
\* geom: the vertices or segments the call was given
DCall(op, opts, geom, err, before, n) ==
    [op |-> op, opts |-> opts, geom |-> geom, err |-> err, pre |-> before, n |-> n]

NoDCall == DCall("NewPage", NilOptions, <<>>, NoErr, <<>>, 0)

PageIdle ==
    /\ graphicsOps = <<>>
    /\ dcall = NoDCall

\* a drawing call returned R
DrawGeom(op, opts, geom, R) ==
    /\ dcall.n < MaxDraws
    /\ graphicsOps' = R.graphicsOps
    /\ dcall' = DCall(op, opts, geom, R.err, graphicsOps, dcall.n + 1)
    /\ UNCHANGED <<writerVars, registryVars>>

Draw(op, opts, R) == DrawGeom(op, opts, <<>>, R)

CallDrawLine ==
    \E opts \in LineOptionArgs : Draw("DrawLine", opts, DrawLine(graphicsOps, opts))

CallDrawRect ==
    \E opts \in ShapeOptionArgs : Draw("DrawRect", opts, DrawRect(graphicsOps, opts))

CallDrawCircle ==
    \E opts \in ShapeOptionArgs, radius \in {-100, 5000} :
        Draw("DrawCircle", opts, DrawCircle(graphicsOps, radius, opts))

CallDrawEllipse ==
    \E opts \in ShapeOptionArgs, r \in RadiusArgs :
        Draw("DrawEllipse", opts, DrawEllipse(graphicsOps, r[1], r[2], opts))

CallDrawPolygon ==
    \E opts \in ShapeOptionArgs, vertices \in VertexArgs(2..3) :
        DrawGeom("DrawPolygon", opts, vertices, DrawPolygon(graphicsOps, vertices, opts))

CallDrawPolyline ==
    \E opts \in LineOptionArgs, vertices \in VertexArgs(1..2) :
        DrawGeom("DrawPolyline", opts, vertices, DrawPolyline(graphicsOps, vertices, opts))

CallDrawBezierCurve ==
    \E opts \in BezierOptionArgs, segments \in SegmentArgs :
        DrawGeom("DrawBezierCurve", opts, segments,
                 DrawBezierCurve(graphicsOps, segments, opts))

----------------------------------------------------------------------------
(* The state machine: one writer at a time is in use; constructing a new   *)
(* one (as Creator.Bytes and Creator.WriteTo do for every output) keeps a  *)
(* summary of the pass the previous writer made.                           *)

NoDoc == MkDoc(0, <<>>, NoMeta)

WriteOps == {"Write", "WriteWithPageContent", "WriteWithAllContent"}

\* the record of a call: k counts the write calls made on the current writer
Call(op, doc, order, seek, err, k) ==
    [op |-> op, doc |-> doc, order |-> order, seek |-> seek, err |-> err, k |-> k, env |-> io]

NoPrev == [valid |-> FALSE, op |-> "New", doc |-> NoDoc, file |-> FALSE, sink |-> <<>>]

\* a page with its text operations (the font of each) and its graphics
\* operations, and a document without metadata of such pages
Page(textOps, gops) == [text |-> textOps, gfx |-> gops, annots |-> 0]

\* a page that declares n annotations
AnnotatedPage(textOps, gops, n) == [Page(textOps, gops) EXCEPT !.annots = n]
GfxDoc(pages) == [pages |-> pages, title |-> "", author |-> "", subject |-> ""]

\* the documents with graphics: a line with an opacity; a page of graphics
\* only with two images and a watermark; a first and a last page with a
\* watermark the generator refuses
GfxDocs ==
    {GfxDoc(<<Page(<<"Helvetica">>, <<LineOp(50)>>)>>),
     GfxDoc(<<Page(<<>>, <<ImageOp(TRUE), ImageOp(FALSE),
                          WatermarkOp("DRAFT", 4800, "Helvetica", 100)>>)>>),
     GfxDoc(<<Page(<<"Helvetica">>, <<ImageOp(TRUE), WatermarkOp("DRAFT", 0, "Helvetica", 50)>>),
              Page(<<"Times-Roman">>, <<ImageOp(FALSE)>>)>>),
     GfxDoc(<<Page(<<"Times-Roman">>, <<ImageOp(FALSE)>>),
              Page(<<>>, <<WatermarkOp("", 4800, "Helvetica", 50)>>)>>)}

\* documents with a font whose font object cannot be written
BrokenDocs == {GfxDoc(<<Page(<<"Helvetica">>, <<>>), Page(<<BrokenFont>>, <<>>)>>)}

\* documents with embedded fonts
EmbeddedDocs ==
    {GfxDoc(<<Page(<<"font_1", "Helvetica">>, <<ImageOp(FALSE)>>)>>),
     GfxDoc(<<Page(<<"font_2">>, <<>>)>>)}

\* documents with annotations: a page with content and two annotations
\* before a page without content and one annotation; a page with one
\* annotation and a watermark the generator refuses before a page of text
AnnotatedDocs ==
    {GfxDoc(<<AnnotatedPage(<<"Helvetica">>, <<>>, 2), AnnotatedPage(<<>>, <<>>, 1)>>),
     GfxDoc(<<AnnotatedPage(<<>>, <<WatermarkOp("DRAFT", 4800, "", 50)>>, 1),
              Page(<<"Helvetica">>, <<>>)>>)}

\* a document with its text operations only, as WriteWithPageContent sees it
TextOnly(doc) ==
    [doc EXCEPT !.pages = [i \in 1..Len(doc.pages) |-> Page(doc.pages[i].text, <<>>)]]

\* the documents a write operation is called with
DocsOf(op) ==
    IF op = "Write" THEN {NoContent(d) : d \in Docs}
    ELSE IF op = "WriteWithPageContent"
    THEN {TextOnly(d) : d \in Docs \cup GfxDocs \cup BrokenDocs}
    ELSE Docs \cup GfxDocs \cup BrokenDocs \cup EmbeddedDocs \cup AnnotatedDocs

Init ==
    /\ \E file \in BOOLEAN : w = NewWriter(file)
    /\ io \in -1..MaxIO
    /\ ret = Call("New", NoDoc, <<>>, 0, NoError, 0)
    /\ pre = w
    /\ prev = NoPrev
    /\ calls = 0
    /\ made = 1
    /\ RegistryIdle
    /\ PageIdle

DoWrite(op) ==
    /\ calls < MaxCalls
    /\ \E doc \in DocsOf(op), seek \in (IF w.file THEN 0..MaxSeekFail ELSE {0}) :
         \E order \in FontOrders(doc) :
            \E R \in {WritePass(w, io, op, doc, order, seek)} :
                /\ w' = R.w
                /\ io' = R.io
                /\ ret' = Call(op, doc, order, seek, R.err, ret.k + 1)
    /\ pre' = w
    /\ calls' = calls + 1
    /\ UNCHANGED <<prev, made, registryVars, pageVars>>

Write == DoWrite("Write")

WriteWithPageContent == DoWrite("WriteWithPageContent")

WriteWithAllContent == DoWrite("WriteWithAllContent")

Close ==
    /\ \E closeFail \in (IF w.file /\ ~w.closed THEN BOOLEAN ELSE {FALSE}) :
         \E R \in {ClosePass(w, io, closeFail)} :
             /\ w' = R.w
             /\ io' = R.io
             /\ ret' = Call("Close", NoDoc, <<>>, 0, R.err, ret.k)
    /\ pre' = w
    /\ UNCHANGED <<prev, calls, made, registryVars, pageVars>>


\* a new writer replaces the current one; prev keeps the output of the old
\* writer when it made exactly one write call and that call succeeded
Construct(file) ==
    /\ made < MaxWriters
    /\ w' = NewWriter(file)
    /\ io' \in -1..MaxIO
    /\ ret' = [Call("New", NoDoc, <<>>, 0, NoError, 0) EXCEPT !.env = io']
    /\ pre' = w'
    /\ prev' = IF ret.op \in WriteOps /\ ret.k = 1 /\ ret.err = NoError
               THEN [valid |-> TRUE, op |-> ret.op, doc |-> ret.doc, file |-> w.file,
                     sink |-> w.sink]
               ELSE NoPrev
    /\ made' = made + 1
    /\ UNCHANGED <<calls, registryVars, pageVars>>

NewPdfWriter == Construct(TRUE)

NewPdfWriterFromWriter == Construct(FALSE)

Next ==
    \/ Write
    \/ WriteWithPageContent
    \/ WriteWithAllContent
    \/ Close
    \/ NewPdfWriter
    \/ NewPdfWriterFromWriter

Spec == Init /\ [][Next]_vars

\* the writer while the registry or the page is exercised on its own
WriterIdle ==
    /\ w = NewWriter(FALSE)
    /\ io = -1
    /\ ret = Call("New", NoDoc, <<>>, 0, NoError, 0)
    /\ pre = w
    /\ prev = NoPrev
    /\ calls = 0
    /\ made = 1

RegistryNext ==
    \/ CallAddFont
    \/ CallAddFontWithID
    \/ CallSetFontObjNumByID
    \/ CallAddImage
    \/ CallAddExtGState
    \/ CallGetOrCreateExtGState
    \/ CallSetExtGStateObjNum
    \/ CallBytes
    \/ CallRenderGraphicsOp

RegistryStart == WriterIdle /\ PageIdle /\ RegistryInit

RegistrySpec == RegistryStart /\ [][RegistryNext]_vars

PageNext ==
    \/ CallDrawLine
    \/ CallDrawRect
    \/ CallDrawCircle
    \/ CallDrawEllipse
    \/ CallDrawPolygon
    \/ CallDrawPolyline
    \/ CallDrawBezierCurve

PageStart == WriterIdle /\ RegistryIdle /\ PageIdle

PageSpec == PageStart /\ [][PageNext]_vars

----------------------------------------------------------------------------
(* Observations on the output of the last call                             *)

\* the last call was a write operation / one that returned no error
IsWrite == ret.op \in WriteOps
Succeeded == IsWrite /\ ret.err = NoError

\* everything the writer has been handed so far: the sink, then the buffer
Emitted(wr) == wr.sink \o wr.buf

\* the tokens the last call handed to the writer
PassOut == SubSeq(Emitted(w), Len(Emitted(pre)) + 1, Len(Emitted(w)))

\* the byte offset at which token i of the sequence begins
BytePos(s, i) == SumLen(SubSeq(s, 1, i - 1))

\* the positions in s of the tokens of type t
Positions(s, t) == {i \in 1..Len(s) : s[i].t = t}

\* the tokens of type t in s, in order
RECURSIVE Select(_, _)
Select(s, t) ==
    IF s = <<>> THEN <<>>
    ELSE (IF Head(s).t = t THEN <<Head(s)>> ELSE <<>>) \o Select(Tail(s), t)

\* the trailer dictionary the last call wrote
TrailerOf(s) == Select(s, "trailerdict")[1].body[1]

----------------------------------------------------------------------------
(* C1: after a successful write operation, with or without metadata, the   *)
(* trailer's /Size is 1 + the number of object numbers allocated in the    *)
(* pass, and for every k in [1, Size) the xref section has exactly one     *)
(* in-use entry, whose offset is the position in the output of the first   *)
(* byte of "k 0 obj".                                                      *)
C1_SizeAndXRef ==
    Succeeded =>
        LET size == TrailerOf(PassOut).Size
            entries == Select(PassOut, "n")
        IN  /\ size = 1 + (w.nextObjNum - 1)
            /\ Len(entries) = size - 1
            /\ \A k \in 1..(size - 1) :
                  /\ k <= Len(entries)
                  /\ \E i \in Positions(w.sink, "obj") :
                        /\ i > Len(Emitted(pre))
                        /\ w.sink[i].n = k
                        /\ BytePos(w.sink, i) = entries[k].n

(* C2: with a non-empty title, author or subject, the Info object is       *)
(* allocated, written to the sink as a regular object and its real offset  *)
(* recorded, all before the xref section is written, and the trailer's     *)
(* /Info names that object.                                                *)
C2_InfoWrittenBeforeXRef ==
    (Succeeded /\ HasMetadata(ret.doc)) =>
        LET info == TrailerOf(PassOut).Info
        IN  /\ info > 0
            /\ \E i \in Positions(w.sink, "obj") :
                  /\ i > Len(Emitted(pre))
                  /\ w.sink[i].n = info
                  /\ w.sink[i].body[1].kind = "Info"
                  /\ \A x \in Positions(w.sink, "xref") : x > Len(Emitted(pre)) => i < x
                  /\ Has(w.offsets, info)
                  /\ w.offsets[info] = BytePos(w.sink, i)

C4_HeaderFirst ==
    Succeeded =>
        /\ Len(PassOut) >= 2
        /\ PassOut[1].t = "%PDF-" /\ PassOut[1].len = 9
        /\ PassOut[2].t = "marker" /\ PassOut[2].len = 6
        /\ w.sink[Len(Emitted(pre)) + 1].t = "%PDF-"
        /\ BytePos(w.sink, Len(Emitted(pre)) + 3) = SumLen(Emitted(pre)) + 15

\* a successful pass on a writer whose sink already holds output
C4_Witness == Succeeded /\ pre.sink # <<>>

(* C5: a write operation called again on the same writer, after a call     *)
(* that succeeded or failed, starts from an empty object list, an empty    *)
(* offset table and a reset allocator: the pass numbers its objects from   *)
(* 1, and its object list, offsets and xref entries hold nothing of the    *)
(* earlier call.                                                           *)
PassBegan == IsWrite /\ ret.err \notin {"writer is closed", "document validation failed"}

C5_NoLeak ==
    PassBegan =>
        LET nums == {w.objects[i].Number : i \in 1..Len(w.objects)}
            entries == Select(PassOut, "n")
        IN  /\ Cardinality(nums) = Len(w.objects)
            /\ nums \subseteq 1..(w.nextObjNum - 1)
            /\ w.objects # <<>> =>
                  \E i \in 1..Len(w.objects) :
                      w.objects[i].Number = 1 /\ w.objects[i].kind = "Pages"
            /\ w.nextObjNum = 1 => w.objects = <<>>
            /\ DOMAIN w.offsets \subseteq nums
            /\ \A k \in DOMAIN w.offsets : w.offsets[k] >= SumLen(Emitted(pre))
            /\ \A k \in 1..Len(entries) : Has(w.offsets, k) /\ entries[k].n = w.offsets[k]
            /\ Succeeded => TrailerOf(PassOut).Root \in nums

\* a second call that succeeds after a pass that left objects and a
\* different allocator value behind
C5_Witness ==
    /\ Succeeded /\ ret.k = 2
    /\ pre.objects # <<>> /\ pre.offsets # EmptyMap
    /\ pre.nextObjNum # w.nextObjNum

(* C6: for the same document a writer over a file and a writer over an     *)
(* io.Writer produce the same offsets and byte-identical output.           *)
C6_FileAndMemoryIdentical ==
    (/\ prev.valid /\ Succeeded /\ ret.k = 1
     /\ prev.file # w.file
     /\ prev.op = ret.op /\ prev.doc = ret.doc)
        => w.sink = prev.sink

(* C7: generating the same document twice yields byte-identical output,    *)
(* also for pages with two or more fonts.                                  *)
C7_SameDocumentSameBytes ==
    (/\ prev.valid /\ Succeeded /\ ret.k = 1
     /\ prev.op = ret.op /\ prev.doc = ret.doc)
        => /\ Len(w.sink) = Len(prev.sink)
           /\ \A i \in 1..Len(w.sink) : w.sink[i] = prev.sink[i]

(* C8: once Close has been called, every later write operation fails with  *)
(* "writer is closed" and changes nothing (sink, buffer, object list,      *)
(* offset table, allocator), and the writer never becomes open again.      *)
C8_ClosedStaysClosed ==
    pre.closed =>
        /\ w.closed
        /\ IsWrite => (ret.err = "writer is closed" /\ w = pre)

\* a write operation called on a closed writer that holds a completed pass
C8_Witness == IsWrite /\ pre.closed /\ pre.objects # <<>> /\ Validate(ret.doc)

(* C9: Close is idempotent: the first call flushes the buffer and releases *)
(* the sink; every later call returns success and changes nothing, also    *)
(* when the first call returned an error.                                  *)
C9_CloseIdempotent ==
    ret.op = "Close" =>
        IF pre.closed
        THEN ret.err = NoError /\ w = pre
        ELSE /\ w.closed
             /\ w.file => ~w.fileOpen
             /\ ret.err = NoError => (w.buf = <<>> /\ w.sink = Emitted(pre))
             /\ w.objects = pre.objects /\ w.offsets = pre.offsets
             /\ w.nextObjNum = pre.nextObjNum

\* a repeated Close on a writer whose first Close failed to flush
C9_Witness ==
    ret.op = "Close" /\ pre.closed /\ pre.berr /\ pre.buf # <<>> /\ ret.err = NoError

(* C10, as claimed: a write operation on a document that fails validation  *)
(* returns a validation error and leaves sink and writer state untouched.  *)
C10_InvalidDocRejected ==
    (IsWrite /\ PageCount(ret.doc) = 0) =>
        (ret.err = "document validation failed" /\ w = pre)

(* C10, amended: on a writer that has not been closed, a write operation   *)
(* on a document that fails validation returns a validation error and      *)
(* leaves sink and writer state untouched (on a closed writer the error is *)
(* "writer is closed").                                                    *)
C10_InvalidDocRejectedWhenOpen ==
    (IsWrite /\ PageCount(ret.doc) = 0) =>
        /\ w = pre
        /\ ret.err = IF pre.closed THEN "writer is closed" ELSE "document validation failed"

\* a document without pages handed to an open writer that holds a pass
C10_Witness ==
    IsWrite /\ PageCount(ret.doc) = 0 /\ ~pre.closed /\ pre.objects # <<>> /\ pre.sink # <<>>

----------------------------------------------------------------------------
(* Observations on the pages the last pass built                           *)

\* the positions of the page objects in a list of objects, and of page j
PagePos(objs) == {i \in 1..Len(objs) : objs[i].kind = "Page"}
NthPage(objs, j) ==
    CHOOSE i \in PagePos(objs) : Cardinality({p \in PagePos(objs) : p <= i}) = j

\* the objects built with page j: those between it and the next page
PageAux(objs, j) ==
    SubSeq(objs, NthPage(objs, j) + 1,
           IF j < Cardinality(PagePos(objs)) THEN NthPage(objs, j + 1) - 1
           ELSE Cardinality({i \in 1..Len(objs) : objs[i].kind # "Info"}))

\* page j and the objects built with it
PageBuilt(objs, j) == <<objs[NthPage(objs, j)]>> \o PageAux(objs, j)

\* the objects of kind kind among those of a sequence
OfKind(objs, kind) == {i \in 1..Len(objs) : objs[i].kind = kind}

\* the generation of the content stream of the page fails
GenerationFails(page) == GenerateContentStreamWithGraphics(page.text, page.gfx).err

\* the pages of the document of the last call whose generation fails
FailingPages == {j \in 1..PageCount(ret.doc) : GenerationFails(ret.doc.pages[j])}

\* the document with the pages whose generation fails left without content
Emptied(doc) ==
    [doc EXCEPT !.pages = [j \in 1..Len(doc.pages) |->
                             IF GenerationFails(doc.pages[j]) THEN Page(<<>>, <<>>)
                             ELSE doc.pages[j]]]

\* the image operations of a page that hold an image with / without alpha
AlphaImages(page) == {i \in 1..Len(page.gfx) : page.gfx[i].Type = 3 /\ page.gfx[i].Image.AlphaMask > 0}
PlainImages(page) == {i \in 1..Len(page.gfx) : page.gfx[i].Type = 3 /\ page.gfx[i].Image.AlphaMask = 0}

(* C11: in every page dictionary the builder emits, every entry of the     *)
(* /Resources dictionary (fonts, image XObjects and ExtGState entries) is  *)
(* bound to a non-zero object number when the dictionary is serialized: no *)
(* resource name handed out during generation is still at placeholder 0.   *)
C11_NoPlaceholderInResources ==
    Succeeded =>
        \A i \in PagePos(w.objects) :
            \A e \in 1..Len(w.objects[i].res.bytes) :
                w.objects[i].res.bytes[e].k > 0 => w.objects[i].res.bytes[e].num # 0

----------------------------------------------------------------------------
(* Observations on the last call on the registry                           *)

\* the maps of the registry other than the font map are as before the call
OnlyFontsChanged ==
    /\ dict.fontIDs = rcall.pre.fontIDs
    /\ dict.xobjects = rcall.pre.xobjects
    /\ dict.extgstates = rcall.pre.extgstates
    /\ dict.extgstateCache = rcall.pre.extgstateCache
    /\ dict.extgstateObjMap = rcall.pre.extgstateObjMap

\* m2 is m1 with the value of the one key k replaced by v
OneEntrySet(m1, m2, k, v) ==
    /\ DOMAIN m2 = DOMAIN m1
    /\ m2[k] = v
    /\ \A x \in (DOMAIN m1) \ {k} : m2[x] = m1[x]

\* the serialization holds the literal s
HasLit(out, s) == \E i \in 1..Len(out) : out[i].k = 0 /\ out[i].s = s

\* the positions in the serialization of the entry of name <prefix><k>
EntryPos(out, prefix, k) == {i \in 1..Len(out) : out[i].s = prefix /\ out[i].k = k}

(* C13: calling AddFontWithID any number of times with the same font ID    *)
(* returns the same resource name every time and leaves exactly one font   *)
(* entry for that ID; only the first call allocates a name.                *)
C13_AddFontWithIDIdempotent ==
    /\ \A a \in DOMAIN dict.fontIDs, b \in DOMAIN dict.fontIDs :
          dict.fontIDs[a] = dict.fontIDs[b] => a = b
    /\ \A a \in DOMAIN dict.fontIDs :
          Has(dict.fonts, dict.fontIDs[a]) /\ dict.fontIDs[a] = rhist.fontName[a]
    /\ rcall.op = "AddFontWithID" =>
          /\ rcall.name = rhist.fontName[rcall.id]
          /\ IF ~rcall.first
             THEN dict = rcall.pre
             ELSE /\ ~Has(rcall.pre.fonts, rcall.name)
                  /\ MapLen(dict.fonts) = MapLen(rcall.pre.fonts) + 1
                  /\ dict.fonts[rcall.name] = rcall.objNum

\* a third call with a font ID, another font having been added in between
C13_Witness ==
    /\ rcall.op = "AddFontWithID" /\ rhist.n = 3
    /\ ~rcall.first
    /\ MapLen(rcall.pre.fonts) > MapLen(rcall.pre.fontIDs)
    /\ rcall.name < MapLen(dict.fonts)

(* C14: GetOrCreateExtGState returns (new name, true) the first time an    *)
(* opacity is seen and (the same name, false) on every later call with     *)
(* that opacity, whatever happens in between; two different opacities      *)
(* never share a name, and a repeated call adds no ExtGState entry.        *)
C14_ExtGStateByOpacity ==
    /\ \A a \in DOMAIN rhist.gsName, b \in DOMAIN rhist.gsName :
          rhist.gsName[a] = rhist.gsName[b] => a = b
    /\ rcall.op = "GetOrCreateExtGState" =>
          /\ rcall.ok = rcall.first
          /\ rcall.name = rhist.gsName[rcall.num]
          /\ IF rcall.first
             THEN /\ ~Has(rcall.pre.extgstates, rcall.name)
                  /\ Has(dict.extgstates, rcall.name)
                  /\ MapLen(dict.extgstates) = MapLen(rcall.pre.extgstates) + 1
             ELSE dict = rcall.pre

\* a repeated call after another graphics state was added in between
C14_Witness ==
    /\ rcall.op = "GetOrCreateExtGState" /\ ~rcall.first /\ ~rcall.ok
    /\ rcall.name < MapLen(dict.extgstates)

(* C15: SetFontObjNumByID with a font ID that was never registered and     *)
(* SetExtGStateObjNum with a name that was never registered return false   *)
(* and leave every map of the registry unchanged; with a registered key    *)
(* they return true and change the object number of that one entry only.   *)
C15_BindUnknownKey ==
    /\ rcall.op = "SetFontObjNumByID" =>
          IF Has(rhist.fontName, rcall.id)
          THEN /\ rcall.ok
               /\ OneEntrySet(rcall.pre.fonts, dict.fonts, rhist.fontName[rcall.id],
                              rcall.objNum)
               /\ OnlyFontsChanged
          ELSE ~rcall.ok /\ dict = rcall.pre
    /\ rcall.op = "SetExtGStateObjNum" =>
          IF rcall.name \in rhist.gs
          THEN /\ rcall.ok
               /\ OneEntrySet(rcall.pre.extgstates, dict.extgstates, rcall.name, rcall.objNum)
               /\ dict.extgstateObjMap[rcall.name] = rcall.objNum
               /\ \A x \in (DOMAIN rcall.pre.extgstateObjMap) \ {rcall.name} :
                      dict.extgstateObjMap[x] = rcall.pre.extgstateObjMap[x]
               /\ (DOMAIN dict.extgstateObjMap) \ {rcall.name}
                      = (DOMAIN rcall.pre.extgstateObjMap) \ {rcall.name}
               /\ dict.fonts = rcall.pre.fonts /\ dict.fontIDs = rcall.pre.fontIDs
               /\ dict.xobjects = rcall.pre.xobjects
               /\ dict.extgstateCache = rcall.pre.extgstateCache
          ELSE ~rcall.ok /\ dict = rcall.pre

\* an unknown graphics-state name handed to a registry that holds another
C15_Witness ==
    /\ rcall.op = "SetExtGStateObjNum" /\ ~rcall.ok
    /\ rcall.name = 2 /\ MapLen(rcall.pre.extgstates) = 1

(* C16: Bytes emits the /Font, /XObject and /ExtGState sub-dictionary      *)
(* exactly when that namespace has an entry, /ProcSet exactly when some    *)
(* namespace has one, "<< >>" for an empty registry, and does not modify   *)
(* the registry.                                                           *)
C16_BytesSections ==
    rcall.op = "Bytes" =>
        /\ HasLit(rcall.out, " /Font <<") <=> MapLen(rcall.pre.fonts) > 0
        /\ HasLit(rcall.out, " /XObject <<") <=> MapLen(rcall.pre.xobjects) > 0
        /\ HasLit(rcall.out, " /ExtGState <<") <=> MapLen(rcall.pre.extgstates) > 0
        /\ HasLit(rcall.out, " /ProcSet [/PDF /Text /ImageB /ImageC /ImageI]")
              <=> (\/ MapLen(rcall.pre.fonts) > 0
                   \/ MapLen(rcall.pre.xobjects) > 0
                   \/ MapLen(rcall.pre.extgstates) > 0)
        /\ (MapLen(rcall.pre.fonts) + MapLen(rcall.pre.xobjects)
              + MapLen(rcall.pre.extgstates) = 0)
              => rcall.out = <<Lit("<<", 2), Lit(" >>", 3)>>
        /\ dict = rcall.pre

\* Bytes on an empty registry that has refused a binding
C16_Witness ==
    /\ rcall.op = "Bytes" /\ rhist.n > 1
    /\ rcall.pre = NewResourceDictionary
    /\ Len(rcall.out) = 2

(* C17: the serialization of a registry depends only on its entries, not   *)
(* on the order in which they are stored or visited: within each           *)
(* sub-dictionary the entries appear in lexicographic order of the         *)
(* resource name (with ten fonts, F10 precedes F2).                        *)
C17_SortedSerialization ==
    rcall.op = "Bytes" =>
        /\ \A it \in IterOrders(rcall.pre) : Bytes(rcall.pre, it) = rcall.out
        /\ \A i \in 1..(Len(rcall.out) - 1) :
              (rcall.out[i].k > 0 /\ rcall.out[i + 1].k > 0)
                  => StringLess(Sprintd(rcall.out[i].k), Sprintd(rcall.out[i + 1].k))
        /\ \A k \in DOMAIN rcall.pre.fonts :
              /\ Cardinality(EntryPos(rcall.out, "F", k)) = 1
              /\ \A i \in EntryPos(rcall.out, "F", k) : rcall.out[i].num = rcall.pre.fonts[k]
        /\ MapLen(rcall.pre.fonts) >= 10 =>
              \A i \in EntryPos(rcall.out, "F", 10), j \in EntryPos(rcall.out, "F", 2) : i < j

\* ten fonts, visited beginning with F2, serialized with F10 before F2
C17_Witness ==
    /\ rcall.op = "Bytes" /\ MapLen(rcall.pre.fonts) = 10
    /\ rcall.it.fonts[1] = 2
    /\ EntryPos(rcall.out, "F", 10) = {4} /\ EntryPos(rcall.out, "F", 2) = {5}

(* C18, as claimed: for every image operation whose image carries an alpha *)
(* mask the page builder produces exactly two XObjects, a soft mask        *)
(* (DeviceGray, 8 bits per component, FlateDecode) and the image, which    *)
(* references the soft mask through /SMask; an image without alpha         *)
(* produces exactly one XObject with no /SMask entry.                      *)
C18_XObjectsPerImage ==
    Succeeded =>
        \A j \in 1..PageCount(ret.doc) :
            /\ Cardinality(OfKind(PageAux(w.objects, j), "SMask"))
                  = Cardinality(AlphaImages(ret.doc.pages[j]))
            /\ Cardinality(OfKind(PageAux(w.objects, j), "Image"))
                  = Cardinality(AlphaImages(ret.doc.pages[j]))
                    + Cardinality(PlainImages(ret.doc.pages[j]))

(* C18, amended: on a page whose content stream is generated, every image  *)
(* operation whose image carries an alpha mask yields exactly two          *)
(* XObjects, a soft mask (DeviceGray, 8 bits per component, FlateDecode)   *)
(* and the image, which references the soft mask through /SMask; an image  *)
(* without alpha yields exactly one XObject with no /SMask entry; a page    *)
(* whose generation fails yields no XObject.                               *)
C18_XObjectsPerImageOnGeneratedPage ==
    Succeeded =>
        \A j \in 1..PageCount(ret.doc) :
            IF j \in FailingPages
            THEN OfKind(PageAux(w.objects, j), "SMask") = {}
                 /\ OfKind(PageAux(w.objects, j), "Image") = {}
            ELSE /\ Cardinality(OfKind(PageAux(w.objects, j), "SMask"))
                       = Cardinality(AlphaImages(ret.doc.pages[j]))
                 /\ Cardinality(OfKind(PageAux(w.objects, j), "Image"))
                       = Cardinality(AlphaImages(ret.doc.pages[j]))
                         + Cardinality(PlainImages(ret.doc.pages[j]))
                 /\ Cardinality({i \in OfKind(PageAux(w.objects, j), "Image") :
                                    PageAux(w.objects, j)[i].image.SMask = 0})
                       = Cardinality(PlainImages(ret.doc.pages[j]))
                 /\ \A i \in OfKind(PageAux(w.objects, j), "SMask") :
                       /\ PageAux(w.objects, j)[i].image
                             = ImageDict("DeviceGray", 8, "FlateDecode", 0)
                       /\ Cardinality({x \in OfKind(PageAux(w.objects, j), "Image") :
                                          PageAux(w.objects, j)[x].image.SMask
                                             = PageAux(w.objects, j)[i].Number}) = 1
                 /\ \A x \in OfKind(PageAux(w.objects, j), "Image") :
                       PageAux(w.objects, j)[x].image.SMask # 0 =>
                           \E i \in OfKind(PageAux(w.objects, j), "SMask") :
                               PageAux(w.objects, j)[i].Number
                                   = PageAux(w.objects, j)[x].image.SMask

\* a page with an image with alpha and one without, after a pass of another
\* document on the same writer
C18_Witness ==
    /\ Succeeded /\ ret.k = 2 /\ FailingPages = {}
    /\ Cardinality(AlphaImages(ret.doc.pages[1])) = 1
    /\ Cardinality(PlainImages(ret.doc.pages[1])) = 1
    /\ Cardinality(OfKind(PageAux(w.objects, 1), "SMask")) = 1

\* the watermark the last call rendered lacks its text, its font, its size
NoText == rcall.gop.Text = ""
NoFont == rcall.gop.WatermarkFont = ""
NoSize == rcall.gop.TextSize <= 0

(* C19: rendering a watermark fails with exactly "watermark text is empty" *)
(* when its text is empty, "watermark font is not set" when its font name  *)
(* is empty and "watermark font size must be positive: <size with two      *)
(* decimals>" when its size is zero or negative; in each failing case no   *)
(* resource is registered and no content is emitted.                       *)
C19_WatermarkValidation ==
    (rcall.op = "renderGraphicsOp" /\ rcall.gop.Type = 4) =>
        IF NoText \/ NoFont \/ NoSize
        THEN /\ dict = rcall.pre
             /\ csw = rcall.cswPre
             /\ \/ NoText /\ rcall.err = GenError("watermark text is empty", NoArg)
                \/ NoFont /\ rcall.err = GenError("watermark font is not set", NoArg)
                \/ /\ NoSize
                   /\ rcall.err.msg = "watermark font size must be positive: "
                   /\ rcall.gop.TextSize = 0 =>
                         rcall.err.arg = [neg |-> FALSE, int |-> <<0>>, frac |-> <<0, 0>>]
                   /\ rcall.gop.TextSize = -1050 =>
                         rcall.err.arg = [neg |-> TRUE, int |-> <<1, 0>>, frac |-> <<5, 0>>]
        ELSE rcall.err = NoGenError

\* a watermark of size -10.50 rendered into a registry and a stream that
\* already hold the resources and the content of another operation
C19_Witness ==
    /\ rcall.op = "renderGraphicsOp" /\ rcall.gop.Type = 4
    /\ ~NoText /\ ~NoFont /\ rcall.gop.TextSize = -1050
    /\ rcall.err.msg = "watermark font size must be positive: "
    /\ HasResources(rcall.pre) /\ rcall.cswPre # <<>>

(* C20: every successful DrawLine, DrawRect, DrawCircle, DrawEllipse,      *)
(* DrawPolygon, DrawPolyline or DrawBezierCurve call appends exactly one   *)
(* operation, carrying the options it was given (the opacity included), to *)
(* the end of graphicsOps, so the list holds the operations in call order; *)
(* a call that returns a validation error leaves graphicsOps unchanged.    *)
C20_DrawAppendsOne ==
    dcall.op # "NewPage" =>
        IF dcall.err = NoErr
        THEN /\ Len(graphicsOps) = Len(dcall.pre) + 1
             /\ SubSeq(graphicsOps, 1, Len(dcall.pre)) = dcall.pre
             /\ graphicsOps[Len(graphicsOps)].Opts = dcall.opts
             /\ graphicsOps[Len(graphicsOps)].Opts.Opacity = dcall.opts.Opacity
             /\ graphicsOps[Len(graphicsOps)].Type
                   = [DrawLine |-> "GraphicsOpLine", DrawRect |-> "GraphicsOpRect",
                      DrawCircle |-> "GraphicsOpCircle", DrawEllipse |-> "GraphicsOpEllipse",
                      DrawPolygon |-> "GraphicsOpPolygon",
                      DrawPolyline |-> "GraphicsOpPolyline",
                      DrawBezierCurve |-> "GraphicsOpBezier"][dcall.op]
        ELSE graphicsOps = dcall.pre

\* a polygon refused by the validation of its options on a page that holds
\* two operations, the second one with an opacity
C20_Witness ==
    /\ dcall.op = "DrawPolygon" /\ dcall.err # NoErr /\ ~dcall.opts.nil
    /\ Len(dcall.pre) = 2
    /\ ~dcall.pre[2].Opts.Opacity.nil
    /\ dcall.pre[1].Type # dcall.pre[2].Type

\* the last call was refused for its geometry: a radius, the vertex count
GeometryRefused ==
    dcall.err \in {ErrorsNew("horizontal radius must be non-negative"),
                   ErrorsNew("vertical radius must be non-negative"),
                   ErrorsNew("polygon must have at least 3 vertices")}

(* C21: DrawPolygon and DrawEllipse reject options that combine a gradient *)
(* fill with a solid fill colour in either colour space: FillGradient with *)
(* FillColor, and FillGradient with FillColorCMYK, both return an error    *)
(* and store no operation.                                                 *)
C21_GradientExcludesFillColour ==
    (/\ dcall.op \in {"DrawPolygon", "DrawEllipse"}
     /\ ~dcall.opts.nil
     /\ ~dcall.opts.FillGradient.nil
     /\ (~dcall.opts.FillColor.nil \/ ~dcall.opts.FillColorCMYK.nil))
        => (dcall.err # NoErr /\ graphicsOps = dcall.pre)

\* the only paint of the options is given in CMYK
OnlyCMYKPaint(opts) ==
    /\ ~opts.nil
    /\ opts.StrokeColor.nil /\ opts.FillColor.nil /\ opts.FillGradient.nil
    /\ (~opts.StrokeColorCMYK.nil \/ ~opts.FillColorCMYK.nil)

(* C22: DrawPolygon and DrawEllipse accept options whose only paint is     *)
(* given in CMYK (StrokeColorCMYK or FillColorCMYK set while StrokeColor,  *)
(* FillColor and FillGradient are nil): with a valid geometry and a        *)
(* non-negative stroke width the call returns no error and stores the      *)
(* operation.                                                              *)
C22_CMYKOnlyAccepted ==
    (/\ dcall.op \in {"DrawPolygon", "DrawEllipse"}
     /\ OnlyCMYKPaint(dcall.opts)
     /\ dcall.opts.StrokeWidth >= 0
     /\ ~GeometryRefused)
        => (dcall.err = NoErr /\ Len(graphicsOps) = Len(dcall.pre) + 1)

\* the object numbers carried by the objects of the writer's list
ObjectNumbers(wr) == {wr.objects[i].Number : i \in 1..Len(wr.objects)}

\* the last call wrote every object of its list: it failed, if at all, at
\* the xref section or later
ObjectsWritten ==
    IsWrite /\ ret.err \in {NoError, "failed to write xref", "failed to write trailer",
                            "failed to flush writer"}

(* C23: on every path through a write pass, a font whose WriteFontObject   *)
(* or WriteFont call fails after its number was allocated included, the    *)
(* object numbers carried by the objects of the writer's list are pairwise *)
(* distinct and are exactly the set {1, ..., nextObjNum-1}, and once the   *)
(* objects are written the offset table has an entry for each of them, so  *)
(* that writeXRef finds no offset missing.                                 *)
C23_ObjectNumbersDense ==
    PassBegan =>
        /\ Cardinality(ObjectNumbers(w)) = Len(w.objects)
        /\ ObjectNumbers(w) = 1..(w.nextObjNum - 1)
        /\ ObjectsWritten => DOMAIN w.offsets = 1..(w.nextObjNum - 1)

\* the objects the last call handed to the writer, in order, and the
\* positions among them of the objects that carry the number n
WrittenObjects == Select(PassOut, "obj")
Carriers(n) == {i \in 1..Len(WrittenObjects) : WrittenObjects[i].n = n}

\* the reference n names an allocated number that exactly one written
\* object carries, an object of the kind given
Resolves(n, kind) ==
    /\ n \in 1..(w.nextObjNum - 1)
    /\ Cardinality(Carriers(n)) = 1
    /\ \A i \in Carriers(n) : WrittenObjects[i].body[1].kind = kind

(* C24: in the output of a successful write pass every structural indirect *)
(* reference resolves: the trailer's /Root, the Catalog's /Pages, each     *)
(* entry of /Kids, each page's /Parent and /Contents and each image's      *)
(* /SMask name an object number in [1, nextObjNum) that exactly one object *)
(* written in that pass carries.                                           *)
C24_ReferencesResolve ==
    Succeeded =>
        /\ Resolves(TrailerOf(PassOut).Root, "Catalog")
        /\ \A i \in 1..Len(WrittenObjects) :
              /\ WrittenObjects[i].body[1].kind = "Catalog"
                    => Resolves(WrittenObjects[i].body[1].ref, "Pages")
              /\ WrittenObjects[i].body[1].kind = "Pages"
                    => \A k \in 1..Len(WrittenObjects[i].body[1].kids) :
                          Resolves(WrittenObjects[i].body[1].kids[k], "Page")
              /\ WrittenObjects[i].body[1].kind = "Page"
                    => /\ Resolves(WrittenObjects[i].body[1].ref, "Pages")
                       /\ WrittenObjects[i].body[1].contents > 0
                             => Resolves(WrittenObjects[i].body[1].contents, "Content")
              /\ (WrittenObjects[i].body[1].kind = "Image"
                     /\ WrittenObjects[i].body[1].image.SMask > 0)
                    => Resolves(WrittenObjects[i].body[1].image.SMask, "SMask")

\* a successful second pass on a writer, over a page with a content stream
\* and an image that references a soft mask
C24_Witness ==
    /\ Succeeded /\ ret.k = 2 /\ Emitted(pre) # <<>>
    /\ \E i \in 1..Len(WrittenObjects) :
          WrittenObjects[i].body[1].kind = "Image" /\ WrittenObjects[i].body[1].image.SMask > 0
    /\ \E i \in 1..Len(WrittenObjects) :
          WrittenObjects[i].body[1].kind = "Page" /\ WrittenObjects[i].body[1].contents > 0

\* the positions in everything the writer was handed of the tokens of type
\* t that the last call handed to it
PassPositions(t) == {i \in Positions(Emitted(w), t) : i > Len(Emitted(pre))}

(* C25: the offset recorded for each object the pass writes equals the     *)
(* number of bytes emitted before that object's first byte, and the        *)
(* startxref value equals the number of bytes emitted before the "xref"    *)
(* keyword: the buffer is flushed before each measurement, so no buffered  *)
(* byte is left uncounted.                                                 *)
C25_OffsetsAreBytePositions ==
    PassBegan =>
        /\ \A i \in PassPositions("obj") :
              /\ Has(w.offsets, Emitted(w)[i].n)
              /\ w.offsets[Emitted(w)[i].n] = BytePos(Emitted(w), i)
        /\ \A i \in PassPositions("xrefoffset") :
              \A x \in PassPositions("xref") : Emitted(w)[i].n = BytePos(Emitted(w), x)
        /\ Succeeded => (PassPositions("xrefoffset") # {} /\ PassPositions("xref") # {})

\* a successful second pass on a writer whose sink holds an earlier pass,
\* over a document with two pages and content
C25_Witness ==
    /\ Succeeded /\ ret.k = 2 /\ pre.sink # <<>>
    /\ PageCount(ret.doc) = 2
    /\ Cardinality(PassPositions("obj")) >= 5

\* the types of the tokens of a trailer
TrailerTokens == {"trailer", "trailerdict", "startxref", "xrefoffset", "%%EOF"}

\* the last call returned an error of a stage before the trailer
FailedBeforeTrailer ==
    IsWrite /\ ret.err \in {"failed to write header", "failed to get file position",
                            "failed to write object", "failed to write xref"}

\* the allocated numbers for which the offset table has no entry
MissingOffsets(wr) == {k \in 1..(wr.nextObjNum - 1) : ~Has(wr.offsets, k)}

KindPos(wr, kind) == {i \in 1..Len(wr.objects) : wr.objects[i].kind = kind}

\* the numbers of the page objects of the writer's list, in list order
RECURSIVE PageNumbers(_)
PageNumbers(objs) ==
    IF objs = <<>> THEN <<>>
    ELSE (IF Head(objs).kind = "Page" THEN <<Head(objs).Number>> ELSE <<>>)
         \o PageNumbers(Tail(objs))

(* C27: in every write pass the Pages root is allocated before any page    *)
(* and has object number 1; page numbers are allocated in document order;  *)
(* the root's /Kids lists the page object numbers in document order with   *)
(* no duplicates, /Count equals the document's page count, and every       *)
(* page's /Parent is the root's number.                                    *)
C27_PageTreeShape ==
    (PassBegan /\ w.objects # <<>>) =>
        /\ Cardinality(KindPos(w, "Pages")) = 1
        /\ \A r \in KindPos(w, "Pages") :
              /\ w.objects[r].Number = 1
              /\ w.objects[r].kids = PageNumbers(w.objects)
              /\ Len(w.objects[r].kids) = PageCount(ret.doc)
              /\ w.objects[r].count = PageCount(ret.doc)
              /\ \A i, j \in 1..Len(w.objects[r].kids) :
                    i < j => w.objects[r].kids[i] < w.objects[r].kids[j]
              /\ \A p \in KindPos(w, "Page") : w.objects[p].ref = w.objects[r].Number
        /\ \A j \in 1..PageCount(ret.doc) :
              w.objects[NthPage(w.objects, j)].contents > 0
                  => (ret.doc.pages[j].text # <<>> \/ ret.doc.pages[j].gfx # <<>>)

\* a successful pass over two pages, the first with auxiliary objects
C27_Witness ==
    /\ Succeeded /\ PageCount(ret.doc) = 2
    /\ \A r \in KindPos(w, "Pages") : w.objects[r].kids[2] > w.objects[r].kids[1] + 2

\* the kinds of the auxiliary objects of a page
AuxKinds == {"Font", "FontFile", "Image", "SMask", "Annot"}

(* C28: objects are written to the sink in list order: the Catalog first,  *)
(* then the Pages root, then for each page in document order its page      *)
(* dictionary, its content stream (if any) and its auxiliary objects. The  *)
(* Catalog is allocated after all page objects, so it carries the highest  *)
(* number of the objects written while it has the lowest offset, and the   *)
(* xref entry at position k holds the offset recorded for object k.        *)
C28_WriteOrder ==
    (PassBegan /\ w.objects # <<>>) =>
        /\ Len(WrittenObjects) <= Len(w.objects)
        /\ \A i \in 1..Len(WrittenObjects) : WrittenObjects[i].body[1] = w.objects[i]
        /\ ObjectsWritten => Len(WrittenObjects) = Len(w.objects) - Cardinality(KindPos(w, "Info"))
        /\ w.objects[1].kind = "Catalog" /\ w.objects[2].kind = "Pages"
        /\ w.objects[3].kind = "Page"
        /\ \A i \in 3..Len(w.objects) :
              /\ w.objects[i].kind \in {"Page", "Content", "Info"} \cup AuxKinds
              /\ w.objects[i].kind = "Content" => w.objects[i - 1].kind = "Page"
              /\ w.objects[i].kind \in AuxKinds \ {"Annot"}
                    => w.objects[i - 1].kind \in {"Content"} \cup (AuxKinds \ {"Annot"})
              /\ w.objects[i].kind = "Annot"
                    => w.objects[i - 1].kind \in {"Page", "Content"} \cup AuxKinds
              /\ w.objects[i].kind = "Info" => i = Len(w.objects)
        /\ \A i \in 2..Len(WrittenObjects) :
              /\ WrittenObjects[i].n < WrittenObjects[1].n
              /\ w.offsets[WrittenObjects[1].n] < w.offsets[WrittenObjects[i].n]
        /\ \A k \in 1..Len(Select(PassOut, "n")) :
              Has(w.offsets, k) /\ Select(PassOut, "n")[k].n = w.offsets[k]

\* a successful pass over two pages with content: the xref entry of the
\* Catalog is the last one and holds the lowest offset
C28_Witness ==
    /\ Succeeded /\ PageCount(ret.doc) = 2
    /\ Cardinality(KindPos(w, "Content")) = 2
    /\ Len(Select(PassOut, "n")) = w.objects[1].Number
    /\ \A k \in 1..(w.objects[1].Number - 1) :
          Select(PassOut, "n")[w.objects[1].Number].n < Select(PassOut, "n")[k].n

\* the last call wrote its xref section in full
XRefWritten ==
    IsWrite /\ ret.err \in {NoError, "failed to write trailer", "failed to flush writer"}

(* C29: the xref section written by writeXRef has the subsection header    *)
(* "0 N" with N = nextObjNum at that moment and exactly N entry lines:     *)
(* first the free entry "0000000000 65535 f ", then one in-use entry per   *)
(* object number 1..N-1 in ascending number order; every entry line is     *)
(* exactly 20 bytes long.                                                  *)
C29_XRefSection ==
    XRefWritten =>
        /\ Cardinality(PassPositions("xref")) = 1
        /\ \A x \in PassPositions("xref") :
              /\ Emitted(w)[x + 1].t = "subsection"
              /\ Emitted(w)[x + 1].n = w.nextObjNum - Cardinality(KindPos(w, "Info"))
              /\ Emitted(w)[x + 1].n = Len(WrittenObjects) + 1
              /\ Emitted(w)[x + 2].t = "f" /\ Emitted(w)[x + 2].len = 20
              /\ \A k \in 1..(Emitted(w)[x + 1].n - 1) :
                    /\ Emitted(w)[x + 2 + k].t = "n"
                    /\ Emitted(w)[x + 2 + k].n = w.offsets[k]
                    /\ Emitted(w)[x + 2 + k].len = 20
              /\ Len(Select(PassOut, "n")) = Emitted(w)[x + 1].n - 1
              /\ Len(Select(PassOut, "f")) = 1
              /\ Len(Emitted(w)) >= x + 1 + Emitted(w)[x + 1].n
              /\ Len(Emitted(w)) > x + 1 + Emitted(w)[x + 1].n
                    => Emitted(w)[x + 2 + Emitted(w)[x + 1].n].t = "trailer"

\* a successful pass with metadata over two pages with content, on a sink
\* that holds an earlier pass
C29_Witness ==
    /\ Succeeded /\ ret.k = 2 /\ pre.sink # <<>>
    /\ KindPos(w, "Info") # {}
    /\ Len(Select(PassOut, "n")) >= 6

\* the calls the page builder made on its collaborators in the last call
PassLog == WritePass(pre, ret.env, ret.op, ret.doc, ret.order, ret.seek).log

\* the positions in the log L at which the building of a page begins, and
\* the entries of the page that entry i belongs to
PageMarks(L) == {i \in 1..Len(L) : L[i].call = "createPageWithAllContent"}
SamePage(L, i) == {j \in 1..Len(L) : \A m \in PageMarks(L) : (m <= i) <=> (m <= j)}

\* the embedded fonts of a page
EmbeddedOf(page) ==
    {f \in CreateFontCollectionWithGraphics(page.text, page.gfx) : IsEmbedded(f)}

\* the embedded fonts of the page of the document that entry i of L belongs to
EmbeddedAt(L, i) == EmbeddedOf(ret.doc.pages[Cardinality({m \in PageMarks(L) : m <= i})])

\* in the log L the subsets are built before the generator runs and the
\* font objects are created after it
BuildFirst(L) ==
    \A i \in 1..Len(L) :
        /\ L[i].call = "GenerateContentStreamWithGraphics"
              => /\ \A j \in SamePage(L, i) :
                       /\ L[j].call = "Build" => j < i
                       /\ L[j].call \in {"WriteFont", "WriteFontObject"} => j > i
                 /\ EmbeddedAt(L, i) # {}
                       => \E j \in SamePage(L, i) :
                             L[j].call = "Build" /\ L[j].fonts = EmbeddedAt(L, i)
        /\ L[i].call \in {"WriteFont", "WriteFontObject"}
              => \E j \in SamePage(L, i) :
                    j < i /\ L[j].call = "GenerateContentStreamWithGraphics"

(* C30: for every page built by createPageWithAllContent that uses         *)
(* embedded fonts, the Build step of every embedded font subset of the     *)
(* page has been invoked before the content-stream generator is invoked    *)
(* for that page, and the font objects of the page are created only after  *)
(* the generator has returned.                                             *)
C30_BuildBeforeGenerate ==
    (PassBegan /\ ret.op = "WriteWithAllContent") => BuildFirst(PassLog)

\* the log L holds the building of font_1, its font object and a standard font
BuiltAndWritten(L) ==
    /\ \E i \in 1..Len(L) : L[i].call = "Build" /\ L[i].fonts = {"font_1"}
    /\ \E i \in 1..Len(L) : L[i].call = "WriteFont" /\ L[i].fonts = {"font_1"}
    /\ \E i \in 1..Len(L) : L[i].call = "WriteFontObject"

\* a successful pass over a page with an embedded font and a standard font
C30_Witness ==
    /\ Succeeded /\ ret.op = "WriteWithAllContent"
    /\ KindPos(w, "FontFile") # {}
    /\ BuiltAndWritten(PassLog)

----------------------------------------------------------------------------
(* Observations on the fonts, images and annotations of the pages          *)

\* the operations of the page use a font: text operations, a text block
\* or a watermark
UsesFont(page) ==
    \/ Len(page.text) > 0
    \/ hasTextBlockOps(page.gfx)
    \/ \E i \in 1..Len(page.gfx) : page.gfx[i].Type = 4

\* the font f has a font object among the objects of page j, and an entry
\* of the page's /Font dictionary names it
FontObjectBound(j, f) ==
    \E i \in OfKind(PageAux(w.objects, j), "Font") :
        /\ PageAux(w.objects, j)[i].font = f
        /\ \E e \in 1..Len(w.objects[NthPage(w.objects, j)].res.bytes) :
              /\ w.objects[NthPage(w.objects, j)].res.bytes[e].s = "F"
              /\ w.objects[NthPage(w.objects, j)].res.bytes[e].k > 0
              /\ w.objects[NthPage(w.objects, j)].res.bytes[e].num
                    = PageAux(w.objects, j)[i].Number

(* C31: createPageWithAllContent runs font collection, and then creates    *)
(* and binds a font object for each collected font, for every page whose   *)
(* operations use a font: pages with text operations, pages with TextBlock *)
(* graphics operations, and pages whose only text-bearing operation is a   *)
(* watermark graphics operation. Judged on the pages whose content stream  *)
(* is generated and on the fonts whose font object can be written.          *)
C31_FontObjectForEveryFont ==
    (Succeeded /\ ret.op = "WriteWithAllContent") =>
        \A j \in 1..PageCount(ret.doc) :
            (UsesFont(ret.doc.pages[j]) /\ ~GenerationFails(ret.doc.pages[j])) =>
                \A f \in CreateFontCollectionWithGraphics(ret.doc.pages[j].text,
                                                          ret.doc.pages[j].gfx) :
                    (~WriteFontObject(f) /\ ~WriteFontFails(f)) => FontObjectBound(j, f)

\* the resource names the generator's AddImage returns for the image
\* operations of gops, in scan order, G being the generation so far
RECURSIVE ImageNamesUsed(_, _)
ImageNamesUsed(G, gops) ==
    IF gops = <<>> \/ G.err # NoGenError THEN <<>>
    ELSE (IF Head(gops).Type = 3 THEN <<AddImageName(G.resources)>> ELSE <<>>)
         \o ImageNamesUsed(renderGraphicsOp(G, Head(gops)), Tail(gops))

\* the image XObjects among the objects of page j, in list order
ImageObjects(j) == SelectSeq(PageAux(w.objects, j), LAMBDA o : o.kind = "Image")

\* the entries of the /XObject dictionary of a page object with the name Im<k>
XObjectEntries(pageObj, k) ==
    {e \in 1..Len(pageObj.res.bytes) :
        pageObj.res.bytes[e].s = "Im" /\ pageObj.res.bytes[e].k = k}

\* the k-th image operation of the page has the XObject imgs[k], of a
\* number no other object of the pass has, bound to the name Im<k>, which
\* is the name names[k] the generator used for the operation
ImagesBound(page, pageObj, imgs, names) ==
    /\ Len(imgs) = Len(Images(page.gfx))
    /\ Len(names) = Len(imgs)
    /\ \A k \in 1..Len(imgs) :
          /\ names[k] = k
          /\ imgs[k].image.Filter
                = (IF Images(page.gfx)[k].Format = "jpeg" THEN "DCTDecode" ELSE "FlateDecode")
          /\ (imgs[k].image.SMask > 0) = (Images(page.gfx)[k].AlphaMask > 0)
          /\ imgs[k].Number > 0
          /\ Cardinality({i \in 1..Len(w.objects) : w.objects[i].Number = imgs[k].Number}) = 1
          /\ Cardinality(XObjectEntries(pageObj, k)) = 1
          /\ \A e \in XObjectEntries(pageObj, k) : pageObj.res.bytes[e].num = imgs[k].Number
    /\ \A e \in 1..Len(pageObj.res.bytes) :
          pageObj.res.bytes[e].s = "Im" => pageObj.res.bytes[e].k \in 1..Len(imgs)

AnnotObjects(j) == OfKind(PageAux(w.objects, j), "Annot")

\* page j has its n annotations: /Annots holds n references, one to each
\* of the n annotation objects among the objects of the page
HasAnnots(j, n) ==
    /\ Len(w.objects[NthPage(w.objects, j)].annots) = n
    /\ Cardinality(AnnotObjects(j)) = n
    /\ \A i \in AnnotObjects(j) :
          Cardinality({k \in 1..n : w.objects[NthPage(w.objects, j)].annots[k]
                                       = PageAux(w.objects, j)[i].Number}) = 1

(* C33: every page that declares at least one annotation and is written    *)
(* through WriteWithAllContent gets its annotation objects materialized    *)
(* and a /Annots array in its page dictionary holding one reference per    *)
(* annotation object, and those objects are part of the page's auxiliary   *)
(* objects; this holds for every such page, whatever the outcome of its    *)
(* font collection and content-stream generation.                          *)
C33_AnnotationsOnEveryPage ==
    (Succeeded /\ ret.op = "WriteWithAllContent") =>
        \A j \in 1..PageCount(ret.doc) :
            ret.doc.pages[j].annots > 0 => HasAnnots(j, ret.doc.pages[j].annots)

\* the number allocated after that of page j: that of the next page, or
\* that of the catalog after the last page
NumberAfterPage(j) ==
    IF j < PageCount(ret.doc) THEN w.objects[NthPage(w.objects, j + 1)].Number
    ELSE w.objects[1].Number

SomeMetadata == \E f \in {ret.doc.title, ret.doc.author, ret.doc.subject} : f # ""

\* the trailer dictionaries the last call handed to the buffer
TrailerDicts == Select(PassOut, "trailerdict")

(* C35: an Info object is created, and an object number allocated for it,  *)
(* only when at least one of title, author or subject is non-empty; when   *)
(* all three are empty the trailer has no /Info entry and a write pass     *)
(* allocates no number beyond the Pages root, the pages with their         *)
(* auxiliary objects, and the Catalog, which takes the last number.        *)
C35_InfoOnlyWithMetadata ==
    (PassBegan /\ w.objects # <<>>) =>
        /\ KindPos(w, "Info") # {} => SomeMetadata
        /\ Cardinality(KindPos(w, "Info")) <= 1
        /\ w.nextObjNum = w.objects[1].Number + 1 + Cardinality(KindPos(w, "Info"))
        /\ \A i \in KindPos(w, "Info") : w.objects[i].Number = w.objects[1].Number + 1
        /\ \A t \in 1..Len(TrailerDicts) :
              /\ (TrailerDicts[t].body[1].Info # 0) = SomeMetadata
              /\ (KindPos(w, "Info") # {}) = SomeMetadata
              /\ \A i \in KindPos(w, "Info") :
                    TrailerDicts[t].body[1].Info = w.objects[i].Number
        /\ ~SomeMetadata =>
              /\ w.nextObjNum = w.objects[1].Number + 1
              /\ \A i \in 1..Len(w.objects) :
                    w.objects[i].kind \in {"Catalog", "Pages", "Page", "Content"} \cup AuxKinds

\* a successful pass without metadata on a writer whose earlier pass made
\* an Info object
C35_Witness ==
    /\ Succeeded /\ ~SomeMetadata /\ ret.k = 2
    /\ KindPos(pre, "Info") # {}
    /\ Len(TrailerDicts) = 1 /\ TrailerDicts[1].body[1].Info = 0
    /\ w.nextObjNum = w.objects[1].Number + 1

----------------------------------------------------------------------------
(* Observations on the names of the registry                               *)

\* the operations of the three namespaces
FontOps == {"AddFont", "AddFontWithID", "SetFontObjNumByID"}
ImageOps == {"AddImage"}
ExtGStateOps == {"AddExtGState", "GetOrCreateExtGState", "SetExtGStateObjNum"}

\* the name the last call returned was held by no entry before the call
FreshName(m) == ~Has(m, rcall.name) /\ rcall.name = MapLen(m) + 1

(* C36: after any sequence of registry operations the font names in use    *)
(* are exactly F1..Fn, the image names Im1..Imk and the ExtGState names    *)
(* GS1..GSm, where n, k and m are the entry counts of the three namespaces *)
(* (AddFont and AddFontWithID share the F counter, AddExtGState and        *)
(* GetOrCreateExtGState share the GS counter); an add never returns a name *)
(* already held by another entry, and an operation on one namespace        *)
(* changes no entry and no next name of the other two.                     *)
C36_NamesAreDense ==
    /\ DOMAIN dict.fonts = 1..MapLen(dict.fonts)
    /\ DOMAIN dict.xobjects = 1..MapLen(dict.xobjects)
    /\ DOMAIN dict.extgstates = 1..MapLen(dict.extgstates)
    /\ rcall.op = "AddFont" => FreshName(rcall.pre.fonts)
    /\ rcall.op = "AddImage" => FreshName(rcall.pre.xobjects)
    /\ rcall.op = "AddExtGState" => FreshName(rcall.pre.extgstates)
    /\ rcall.op = "AddFontWithID" =>
          IF Has(rcall.pre.fontIDs, rcall.id) THEN rcall.pre.fontIDs[rcall.id] = rcall.name
          ELSE FreshName(rcall.pre.fonts)
    /\ rcall.op = "GetOrCreateExtGState" =>
          IF Has(rcall.pre.extgstateCache, rcall.num)
          THEN rcall.pre.extgstateCache[rcall.num] = rcall.name
          ELSE FreshName(rcall.pre.extgstates)
    /\ rcall.op \in FontOps =>
          /\ dict.xobjects = rcall.pre.xobjects
          /\ dict.extgstates = rcall.pre.extgstates
          /\ dict.extgstateCache = rcall.pre.extgstateCache
          /\ dict.extgstateObjMap = rcall.pre.extgstateObjMap
    /\ rcall.op \in ImageOps =>
          /\ dict.fonts = rcall.pre.fonts
          /\ dict.fontIDs = rcall.pre.fontIDs
          /\ dict.extgstates = rcall.pre.extgstates
          /\ dict.extgstateCache = rcall.pre.extgstateCache
          /\ dict.extgstateObjMap = rcall.pre.extgstateObjMap
    /\ rcall.op \in ExtGStateOps =>
          /\ dict.fonts = rcall.pre.fonts
          /\ dict.fontIDs = rcall.pre.fontIDs
          /\ dict.xobjects = rcall.pre.xobjects

\* an image is added to a registry that holds a font added by AddFont, a
\* font added by AddFontWithID and no image
C36_Witness ==
    /\ rcall.op = "AddImage" /\ rcall.name = 1
    /\ MapLen(dict.fonts) = 2 /\ MapLen(dict.fontIDs) = 1
    /\ \A id \in DOMAIN dict.fontIDs : dict.fontIDs[id] = 2

(* C37: AddFontWithID called with a font ID that is already registered     *)
(* leaves the stored object number of that font unchanged even when a      *)
(* different object number is passed; after any sequence of registry       *)
(* operations distinct font IDs map to distinct resource names, and every  *)
(* name in the ID map is a key of the font map.                            *)
C37_RegisteredFontKeepsNumber ==
    /\ (rcall.op = "AddFontWithID" /\ Has(rcall.pre.fontIDs, rcall.id)) =>
          /\ dict.fonts = rcall.pre.fonts
          /\ dict.fonts[rcall.name] = rcall.pre.fonts[rcall.pre.fontIDs[rcall.id]]
          /\ dict.fontIDs = rcall.pre.fontIDs
    /\ \A a, b \in DOMAIN dict.fontIDs : a # b => dict.fontIDs[a] # dict.fontIDs[b]
    /\ \A a \in DOMAIN dict.fontIDs : dict.fontIDs[a] \in DOMAIN dict.fonts

\* a registered font ID is added again with another number, two font IDs
\* being registered
C37_Witness ==
    /\ rcall.op = "AddFontWithID" /\ Has(rcall.pre.fontIDs, rcall.id)
    /\ rcall.objNum # rcall.pre.fonts[rcall.pre.fontIDs[rcall.id]]
    /\ MapLen(dict.fontIDs) = 2

(* C39: after any sequence of registry operations, every name present in   *)
(* the ExtGState late-binding map (extgstateObjMap) is also present in the *)
(* ExtGState resource map with the same object number, and every name      *)
(* stored in the opacity cache is a key of the ExtGState resource map.     *)
C39_LateBindingMapMirrorsResources ==
    /\ \A n \in DOMAIN dict.extgstateObjMap :
          Has(dict.extgstates, n) /\ dict.extgstates[n] = dict.extgstateObjMap[n]
    /\ \A o \in DOMAIN dict.extgstateCache : Has(dict.extgstates, dict.extgstateCache[o])

\* a graphics state made by opacity is bound to its number next to one
\* added with its number, which the late-binding map does not hold
C39_Witness ==
    /\ rcall.op = "SetExtGStateObjNum" /\ rcall.ok
    /\ Has(dict.extgstateObjMap, rcall.name) /\ dict.extgstateObjMap[rcall.name] = 8
    /\ \E o \in DOMAIN dict.extgstateCache : dict.extgstateCache[o] = rcall.name
    /\ \E n \in DOMAIN dict.extgstates : ~Has(dict.extgstateObjMap, n)

----------------------------------------------------------------------------
(* Observations on the order of the checks of the drawing calls            *)

\* some segment starts more than 0.001 away, in X or in Y, from the end of
\* the segment before it
Jump(segments) ==
    \E i \in 2..Len(segments) :
        \/ segments[i][1][1] - segments[i - 1][2][1] > 1
        \/ segments[i - 1][2][1] - segments[i][1][1] > 1
        \/ segments[i][1][2] - segments[i - 1][2][2] > 1
        \/ segments[i - 1][2][2] - segments[i][1][2] > 1

\* the message the geometry of the last call is refused with, <<>> when the
\* geometry is accepted
GeometryError ==
    IF dcall.op = "DrawPolygon" /\ Len(dcall.geom) < 3
    THEN ErrorsNew("polygon must have at least 3 vertices")
    ELSE IF dcall.op = "DrawPolyline" /\ Len(dcall.geom) < 2
    THEN ErrorsNew("polyline must have at least 2 vertices")
    ELSE IF dcall.op = "DrawBezierCurve" /\ Len(dcall.geom) = 0
    THEN ErrorsNew("bezier curve must have at least 1 segment")
    ELSE IF dcall.op = "DrawBezierCurve" /\ Jump(dcall.geom)
    THEN ErrorsNew("bezier segments must be continuous (segment start point must match previous segment end point)")
    ELSE NoErr

\* the error of the options of the last call
OptionsError ==
    [DrawPolygon |-> validatePolygonOptions(dcall.opts),
     DrawPolyline |-> validatePolylineOptions(dcall.opts),
     DrawBezierCurve |-> validateBezierOptions(dcall.opts)][dcall.op]

NilError ==
    [DrawPolygon |-> ErrorsNew("polygon options cannot be nil"),
     DrawPolyline |-> ErrorsNew("polyline options cannot be nil"),
     DrawBezierCurve |-> ErrorsNew("bezier curve options cannot be nil")][dcall.op]

(* C38: the drawing calls check their arguments in a fixed order and       *)
(* reject, without storing an operation: nil options first; then a polygon *)
(* with fewer than 3 vertices, a polyline with fewer than 2 vertices, a    *)
(* Bezier curve with no segment, or a Bezier curve in which some segment's *)
(* start differs from the previous segment's end by more than 0.001 in X   *)
(* or Y; then invalid options, among them a Bezier fill colour or fill     *)
(* gradient on a curve that is not closed.                                 *)
C38_ChecksInOrder ==
    dcall.op \in {"DrawPolygon", "DrawPolyline", "DrawBezierCurve"} =>
        /\ dcall.err = IF dcall.opts.nil THEN NilError
                       ELSE IF GeometryError # NoErr THEN GeometryError
                       ELSE OptionsError
        /\ dcall.err # NoErr => graphicsOps = dcall.pre
        /\ (/\ dcall.op = "DrawBezierCurve" /\ ~dcall.opts.nil /\ ~dcall.opts.Closed
            /\ ~dcall.opts.FillColor.nil \/ ~dcall.opts.FillGradient.nil)
              => dcall.err # NoErr

\* a Bezier curve whose second segment starts 0.002 below the end of the
\* first and whose options are invalid too is refused for its segments, on
\* a page that holds an operation
C38_Witness ==
    /\ dcall.op = "DrawBezierCurve" /\ ~dcall.opts.nil
    /\ Len(dcall.geom) = 2 /\ dcall.geom[2][1][2] = dcall.geom[1][2][2] - 2
    /\ validateBezierOptions(dcall.opts) # NoErr
    /\ dcall.err = ErrorsNew("bezier segments must be continuous (segment start point must match previous segment end point)")
    /\ Len(dcall.pre) >= 1 /\ graphicsOps = dcall.pre

====
